---- MODULE Spec2Model ----
(***************************************************************************)
(* RepMate: the OCR size-chart parser (lib/ocrParser.js) and the fit       *)
(* scorer (lib/sizeCalculator.js) as a state machine.                      *)
(*                                                                         *)
(* Text model.  An OCR text is a sequence of lines, already trimmed and    *)
(* non-empty (every strategy starts with split('\n').map(trim).filter),    *)
(* and a line is a sequence of tokens separated by single blanks:          *)
(*   k = "w"  a word of letters (s is its spelling),                       *)
(*   k = "n"  a decimal integer without leading zeros (n is its value),    *)
(*   k = "c"  a colon, written directly after the preceding token,         *)
(*   k = "g"  an OCR-garbled number: one digit n next to '$' or 'S'        *)
(*            (s is the shape: "$d", "d$", "Sd" or "dS"),                  *)
(*   k = "z"  a Chinese term, written in pinyin (s), set off by blanks.    *)
(* On such texts a regular expression with \b matches whole tokens, and    *)
(* String.includes(keyword) matches a word (or adjacent words) spelling    *)
(* the keyword, since no word of the vocabulary contains a keyword as a    *)
(* proper substring.                                                       *)
(***************************************************************************)
EXTENDS Integers, Sequences, FiniteSets, TLC

VARIABLES
  text,     \* the OCR text handed to parseSizeChart
  pc,       \* "input" until the call under study is made, "done" after it
  chart,    \* the chart parseSizeChart returned
  measure,  \* the last call of calculateMeasurementFit: its arguments and its result
  recs,     \* the last call of calculateRecommendations: its arguments and its result
  fit,      \* the last call of calculateSizeFit: its arguments and its result
  order,    \* the last call of compareSizes or getNextSizeUp: its arguments and its result
  guide,    \* the last call of containsSizeGuide: its argument and its result
  lastIndex, \* the lastIndex of each global regular expression of SIZE_PATTERNS
  response, \* the last response of the OCR endpoint
  repeat    \* a second call of calculateRecommendations on the arguments of the first

vars == <<text, pc, chart, measure, recs, fit, order, guide, lastIndex, response, repeat>>

W(s) == [k |-> "w", s |-> s, n |-> 0]
N(n) == [k |-> "n", s |-> "", n |-> n]
Colon == [k |-> "c", s |-> ":", n |-> 0]
G(shape, d) == [k |-> "g", s |-> shape, n |-> d]

(* ---------- generic sequence helpers ---------- *)

MapSeq(s, Op(_)) == [i \in 1..Len(s) |-> Op(s[i])]

Take(s, k) == SubSeq(s, 1, IF k < Len(s) THEN k ELSE Len(s))

RECURSIVE SumSeq(_)
SumSeq(s) == IF s = <<>> THEN 0 ELSE Head(s) + SumSeq(Tail(s))

RECURSIVE Flatten(_)
Flatten(ss) == IF ss = <<>> THEN <<>> ELSE Head(ss) \o Flatten(Tail(ss))

SeqContains(s, x) == \E i \in 1..Len(s) : s[i] = x

RECURSIVE Dedup(_)
Dedup(s) ==
  IF s = <<>> THEN <<>>
  ELSE LET d == Dedup(SubSeq(s, 1, Len(s) - 1))
           x == s[Len(s)]
       IN IF SeqContains(d, x) THEN d ELSE Append(d, x)

IndexOf(s, x) == IF SeqContains(s, x) THEN CHOOSE i \in 1..Len(s) : s[i] = x /\ \A j \in 1..(i-1) : s[j] # x ELSE 0

(* ---------- letter case of the vocabulary ---------- *)

Upper(s) ==
  CASE s = "s" -> "S" [] s = "m" -> "M" [] s = "l" -> "L" [] s = "xl" -> "XL"
    [] OTHER -> s

Lower(s) ==
  CASE s = "Size" -> "size" [] s = "SIZE" -> "size"
    [] s = "Chest" -> "chest" [] s = "Bust" -> "bust"
    [] s = "Length" -> "length" [] s = "Pants" -> "pants"
    [] s = "Shoulder" -> "shoulder" [] s = "Sleeve" -> "sleeve"
    [] s = "Waist" -> "waist" [] s = "Hip" -> "hip" [] s = "Thigh" -> "thigh"
    [] s = "Hem" -> "hem" [] s = "Inseam" -> "inseam" [] s = "Front" -> "front"
    [] s = "Leg" -> "leg" [] s = "Opening" -> "opening"
    [] s = "Weight" -> "weight" [] s = "Recommended" -> "recommended"
    [] s = "S" -> "s" [] s = "M" -> "m" [] s = "L" -> "l" [] s = "XL" -> "xl"
    [] OTHER -> s

(* ---------- token classes (the regular expressions of the parser) ---------- *)

SIZE_ORDER == <<"XXS", "XS", "S", "M", "L", "XL", "XXL", "XXXL", "3XL", "4XL", "5XL">>

LetterSizes == {SIZE_ORDER[i] : i \in 1..Len(SIZE_ORDER)}

\* /\b(XXS|XS|S|M|L|XL|XXL|XXXL|3XL|4XL|5XL)\b/i on one token
IsLetterSize(t) == t.k = "w" /\ Upper(t.s) \in LetterSizes

\* /\b(4[4-9]|5[0-8])\b/ on one token
IsEUSize(t) == t.k = "n" /\ t.n >= 44 /\ t.n <= 58

\* /\b([1-9])\b/ on one token
IsSingleDigit(t) == t.k = "n" /\ t.n >= 1 /\ t.n <= 9

\* /(\d+\.?\d*)/g : every run of digits
IsNumber(t) == t.k = "n"

\* /\b(\d{2,3}(?:\.\d)?)\b/ : a number of two or three digits
IsTableNumber(t) == t.k = "n" /\ t.n >= 10 /\ t.n <= 999

IsWord(t, w) == t.k = "w" /\ Lower(t.s) = w

\* lowerLine.includes(kw), kw a sequence of lower-case words joined by blanks
Includes(line, kw) ==
  \E i \in 1..Len(line) :
    \A j \in 1..Len(kw) : i + j - 1 <= Len(line) /\ IsWord(line[i + j - 1], kw[j])

NumbersOf(line) == MapSeq(SelectSeq(line, IsNumber), LAMBDA t : t.n)

TableNumbersOf(line) == MapSeq(SelectSeq(line, IsTableNumber), LAMBDA t : t.n)

NoKey == "none"

\* for (const [keyword, name] of Object.entries(keywords)) if (includes) { found = name; break }
RECURSIVE FirstKeyword(_, _)
FirstKeyword(line, keywords) ==
  IF keywords = <<>> THEN NoKey
  ELSE IF Includes(line, Head(keywords).kw) THEN Head(keywords).name
  ELSE FirstKeyword(line, Tail(keywords))

(* ---------- measurement data: an object with insertion-ordered keys ---------- *)

\* entries [key, base, vals]; base is the keyword's canonical name, key the name as stored
HasKey(md, key) == \E i \in 1..Len(md) : md[i].key = key

Keys(md) == MapSeq(md, LAMBDA e : e.key)

\* measurementData[key] = vals
Put(md, key, base, vals) ==
  IF HasKey(md, key)
  THEN [i \in 1..Len(md) |-> IF md[i].key = key THEN [key |-> key, base |-> base, vals |-> vals] ELSE md[i]]
  ELSE Append(md, [key |-> key, base |-> base, vals |-> vals])

\* { size, ...measurements }: the measurement part of row i (values[i] !== undefined)
RowValues(md, i) ==
  LET have == {j \in 1..Len(md) : i <= Len(md[j].vals)}
  IN [key \in {md[j].key : j \in have} |-> md[CHOOSE j \in have : md[j].key = key].vals[i]]

Row(size, m) == [size |-> size, m |-> m]

\* Object.keys(row).length
KeyCount(row) == 1 + Cardinality(DOMAIN row.m)

\* rows of sizes[i] with the i-th value of every measurement, kept when Object.keys(row).length > 1
BuildRows(sizes, md) ==
  LET all == [i \in 1..Len(sizes) |-> Row(sizes[i], RowValues(md, i))]
  IN SelectSeq(all, LAMBDA r : KeyCount(r) > 1)

EmptyResult == [headers |-> <<>>, rows |-> <<>>]

(* ---------- parseMultipleTables ---------- *)

\* /^Size\s+/i : the line starts with the word Size followed by a blank
StartsWithSize(line) == Len(line) >= 2 /\ IsWord(line[1], "size") /\ line[2].k # "c"

\* /Size\s+[1-9]\s+[1-9]/i : Size, a one-digit number, a number
HasSingleDigits(line) ==
  \E i \in 1..Len(line) :
    /\ i + 2 <= Len(line)
    /\ IsWord(line[i], "size")
    /\ IsSingleDigit(line[i + 1])
    /\ line[i + 2].k = "n" /\ line[i + 2].n >= 1

\* the test that puts line i into sizeRowIndices
IsSizeRow(line) ==
  /\ StartsWithSize(line)
  /\ \/ \E i \in 1..Len(line) : IsEUSize(line[i])
     \/ \E i \in 1..Len(line) : IsLetterSize(line[i])
     \/ HasSingleDigits(line)

SizeRowIndices(lines) == SelectSeq([i \in 1..Len(lines) |-> i], LAMBDA i : IsSizeRow(lines[i]))

\* a variant that keeps the size labels as written
SizesAsWritten(sizeLine) ==
  LET eu == MapSeq(SelectSeq(sizeLine, IsEUSize), LAMBDA t : ToString(t.n))
      letters == MapSeq(SelectSeq(sizeLine, IsLetterSize), LAMBDA t : t.s)
      digits == MapSeq(SelectSeq(sizeLine, IsSingleDigit), LAMBDA t : ToString(t.n))
  IN IF Len(eu) >= 2 THEN eu
     ELSE IF Len(letters) >= 2 THEN letters
     ELSE IF Len(digits) >= 2 THEN digits
     ELSE <<>>

\* the sizes of a Size row: EU sizes first, then letters (upper-cased), then single digits
SizesOfSizeLine(sizeLine) ==
  LET eu == MapSeq(SelectSeq(sizeLine, IsEUSize), LAMBDA t : ToString(t.n))
      letters == MapSeq(SelectSeq(sizeLine, IsLetterSize), LAMBDA t : Upper(t.s))
      digits == MapSeq(SelectSeq(sizeLine, IsSingleDigit), LAMBDA t : ToString(t.n))
  IN IF Len(eu) >= 2 THEN eu
     ELSE IF Len(letters) >= 2 THEN letters
     ELSE IF Len(digits) >= 2 THEN digits
     ELSE <<>>

MultiTableKeywords ==
  << [kw |-> <<"length">>, name |-> "length"],
     [kw |-> <<"pants", "length">>, name |-> "pantsLength"],
     [kw |-> <<"chest">>, name |-> "chest"],
     [kw |-> <<"bust">>, name |-> "chest"],
     [kw |-> <<"shoulder">>, name |-> "shoulder"],
     [kw |-> <<"sleeve">>, name |-> "sleeve"],
     [kw |-> <<"waist">>, name |-> "waist"],
     [kw |-> <<"hip">>, name |-> "hip"],
     [kw |-> <<"thigh">>, name |-> "thigh"],
     [kw |-> <<"leg", "opening">>, name |-> "legOpening"],
     [kw |-> <<"inseam">>, name |-> "inseam"],
     [kw |-> <<"hem">>, name |-> "hem"] >>

\* Reasonable measurement range of a multi-table value
MinMeasurement == 10

MaxMeasurement == 250

\* the lines of a segment: up to 3 lines before the Size row, then the lines up to the next Size row
RelevantLines(lines, startIdx, endIdx) ==
  LET first == IF startIdx - 3 > 1 THEN startIdx - 3 ELSE 1
  IN SubSeq(lines, first, startIdx - 1) \o SubSeq(lines, startIdx + 1, endIdx - 1)

\* let key = name; let counter = 2; while (measurementData[key]) key = name + counter++
RECURSIVE NumberedKey(_, _, _)
NumberedKey(md, name, counter) ==
  LET key == IF counter = 1 THEN name ELSE name \o ToString(counter)
  IN IF HasKey(md, key) THEN NumberedKey(md, name, counter + 1) ELSE key

\* the guess for an unlabeled row, from the average of its values
GuessMeasurement(md, vals) ==
  LET sum == SumSeq(vals)
      cnt == Len(vals)
  IN IF sum > 90 * cnt THEN (IF HasKey(md, "pantsLength") THEN "waist" ELSE "pantsLength")
     ELSE IF sum > 50 * cnt THEN (IF HasKey(md, "length") THEN "chest" ELSE "length")
     ELSE IF sum > 35 * cnt THEN (IF HasKey(md, "hip") THEN "thigh" ELSE "hip")
     ELSE "legOpening"

\* the body of the loop over relevantLines: measurementData after one line
MultiTableLine(md, line, nSizes) ==
  LET found == FirstKeyword(line, MultiTableKeywords)
      numbers == NumbersOf(line)
      values == SelectSeq(numbers, LAMBDA v : v >= MinMeasurement /\ v <= MaxMeasurement)
      mv == Take(values, nSizes)
  IN IF Includes(line, <<"dior">>) \/ Includes(line, <<"recommended">>) \/ Includes(line, <<"weight">>)
     THEN md
     ELSE IF numbers = <<>> THEN md
     ELSE IF Len(values) < nSizes THEN md
     ELSE IF found # NoKey THEN Put(md, NumberedKey(md, found, 1), found, mv)
     ELSE IF Len(md) > 0
     THEN LET guess == GuessMeasurement(md, mv)
          IN Put(md, NumberedKey(md, guess, 1), guess, mv)
     ELSE md

RECURSIVE MultiTableData(_, _, _)
MultiTableData(md, rel, nSizes) ==
  IF rel = <<>> THEN md
  ELSE MultiTableData(MultiTableLine(md, Head(rel), nSizes), Tail(rel), nSizes)

\* /pants|hip|thigh|leg|inseam|waist/ and /shoulder|sleeve|chest/ on the joined header names
BottomNames == {"pantsLength", "hip", "thigh", "legOpening", "inseam", "waist"}

TopNames == {"shoulder", "sleeve", "chest"}

SegmentGarmentType(md) ==
  IF (\E i \in 1..Len(md) : md[i].base \in BottomNames) /\ ~(\E i \in 1..Len(md) : md[i].base \in TopNames)
  THEN "bottom" ELSE "top"

\* the tables (none or one) of the segment that starts at Size row number t
SegmentTables(lines, idx, t) ==
  LET startIdx == idx[t]
      endIdx == IF t + 1 <= Len(idx) THEN idx[t + 1] ELSE Len(lines) + 1
      FromRows(sizes, md, rows) ==
        IF Len(sizes) < 2 THEN <<>>
        ELSE IF Len(md) >= 1 /\ Len(rows) >= 2
        THEN << [headers |-> Keys(md), rows |-> rows, garmentType |-> SegmentGarmentType(md)] >>
        ELSE <<>>
      FromData(sizes, md) == FromRows(sizes, md, BuildRows(sizes, md))
      FromSizes(sizes) ==
        FromData(sizes, MultiTableData(<<>>, RelevantLines(lines, startIdx, endIdx), Len(sizes)))
  IN FromSizes(SizesOfSizeLine(lines[startIdx]))

ParseMultipleTables(lines) ==
  LET idx == SizeRowIndices(lines)
  IN Flatten([t \in 1..Len(idx) |-> SegmentTables(lines, idx, t)])

(* ---------- sorting by a size order (Array.prototype.sort is stable) ---------- *)

\* orderList.indexOf(x), zero-based, -1 when absent
OrderIndex(orderList, x) == IndexOf(orderList, x) - 1

\* insert the pair p = [k, v] after every pair whose key is not larger
RECURSIVE InsertByKey(_, _)
InsertByKey(sorted, p) ==
  IF sorted = <<>> THEN <<p>>
  ELSE IF sorted[Len(sorted)].k <= p.k THEN Append(sorted, p)
  ELSE Append(InsertByKey(SubSeq(sorted, 1, Len(sorted) - 1), p), sorted[Len(sorted)])

RECURSIVE SortPairs(_)
SortPairs(ps) ==
  IF ps = <<>> THEN <<>>
  ELSE InsertByKey(SortPairs(SubSeq(ps, 1, Len(ps) - 1)), ps[Len(ps)])

\* s.sort((a, b) => Key(a) - Key(b))
SortByKey(s, Key(_)) ==
  LET sorted == SortPairs([i \in 1..Len(s) |-> [k |-> Key(s[i]), v |-> s[i]]])
  IN [i \in 1..Len(s) |-> sorted[i].v]

(* ---------- parseColumnGroupedFormat ---------- *)

\* the decimal spelling of n starts with the digit 1 (n of at most three digits)
StartsWithOne(n) == n = 1 \/ (n >= 10 /\ n <= 19) \/ (n >= 100 /\ n <= 199)

\* /^(XXS|...|5XL|1)\s*[(]?\d*[)]?$/i : the size the line spells, NoKey when it is no size label
ColumnGroupedSize(line) ==
  IF Len(line) = 1 /\ IsLetterSize(line[1]) THEN Upper(line[1].s)
  ELSE IF Len(line) = 2 /\ IsLetterSize(line[1]) /\ line[2].k = "n" THEN Upper(line[1].s)
  ELSE IF Len(line) = 1 /\ line[1].k = "n" /\ StartsWithOne(line[1].n) THEN "M"
  ELSE IF Len(line) = 2 /\ line[1].k = "n" /\ line[1].n = 1 /\ line[2].k = "n" THEN "M"
  ELSE NoKey

ColumnGroupedKeywords ==
  << [kw |-> <<"front", "length">>, name |-> "length"],
     [kw |-> <<"length">>, name |-> "length"],
     [kw |-> <<"chest">>, name |-> "chest"],
     [kw |-> <<"bust">>, name |-> "chest"],
     [kw |-> <<"shoulder">>, name |-> "shoulder"],
     [kw |-> <<"sleeve">>, name |-> "sleeve"] >>

\* the body of the loop over lines; st = [sizes, md, cur, coll]
ColumnGroupedLine(st, line) ==
  LET size == ColumnGroupedSize(line)
      found == FirstKeyword(line, ColumnGroupedKeywords)
      saved == IF st.cur # NoKey /\ st.coll # <<>> THEN Put(st.md, st.cur, st.cur, st.coll) ELSE st.md
  IN IF size # NoKey
     THEN [st EXCEPT !.sizes = IF SeqContains(st.sizes, size) THEN st.sizes ELSE Append(st.sizes, size)]
     ELSE IF found # NoKey
     THEN [st EXCEPT !.md = saved, !.cur = found, !.coll = TableNumbersOf(line)]
     ELSE IF st.cur # NoKey
     THEN [st EXCEPT !.coll = st.coll \o TableNumbersOf(line)]
     ELSE st

RECURSIVE ColumnGroupedScan(_, _)
ColumnGroupedScan(st, lines) ==
  IF lines = <<>> THEN st ELSE ColumnGroupedScan(ColumnGroupedLine(st, Head(lines)), Tail(lines))

ParseColumnGroupedFormat(lines) ==
  LET FromRows(sizes, md, rows) ==
        IF Len(sizes) >= 2 /\ Len(md) >= 1 /\ Len(rows) >= 2
        THEN [headers |-> Keys(md), rows |-> rows]
        ELSE EmptyResult
      FromData(sizes, md) ==
        FromRows(sizes, md, BuildRows(SortByKey(sizes, LAMBDA x : OrderIndex(SIZE_ORDER, x)), md))
      \* the last measurement is saved after the loop
      FromScan(st) ==
        FromData(st.sizes,
                 IF st.cur # NoKey /\ st.coll # <<>> THEN Put(st.md, st.cur, st.cur, st.coll) ELSE st.md)
  IN FromScan(ColumnGroupedScan([sizes |-> <<>>, md |-> <<>>, cur |-> NoKey, coll |-> <<>>], lines))

(* ---------- parseOCRSpecificFormat ---------- *)

OCRMeasurements == <<"shoulder", "chest", "length">>

OCRSizeOrder == <<"S", "M", "L", "XL">>

\* for (const m of measurements) if (lowerLine.includes(m)) { currentMeasurement = m; break }
OCRKeyword(line, cur) ==
  LET hits == SelectSeq(OCRMeasurements, LAMBDA m : Includes(line, <<m>>))
  IN IF hits = <<>> THEN cur ELSE hits[1]

\* the body of the first loop; st = [all, pos, first, mv, cur];
\* pos holds the entries [key |-> size, vals |-> index into allNumbers] in insertion order
OCRSpecificLine(st, line) ==
  LET isSize == Len(line) = 1 /\ IsLetterSize(line[1])
      cur == OCRKeyword(line, st.cur)
      numbers == TableNumbersOf(line)
  IN IF isSize
     THEN [st EXCEPT !.pos = Put(st.pos, Upper(line[1].s), "", Len(st.all)), !.first = TRUE, !.cur = NoKey]
     ELSE IF numbers = <<>> THEN [st EXCEPT !.cur = cur]
     ELSE [st EXCEPT !.cur = cur,
                     !.all = st.all \o numbers,
                     !.mv = IF cur # NoKey /\ ~st.first /\ ~HasKey(st.mv, cur)
                            THEN Put(st.mv, cur, cur, <<numbers[1]>>) ELSE st.mv]

RECURSIVE OCRSpecificScan(_, _)
OCRSpecificScan(st, lines) ==
  IF lines = <<>> THEN st ELSE OCRSpecificScan(OCRSpecificLine(st, Head(lines)), Tail(lines))

\* the rows of one detected size (none, one, or the L and XL rows split from interleaved values)
OCRSizeRows(st, detected, i) ==
  LET size == detected[i]
      posOf(z) == st.pos[CHOOSE j \in 1..Len(st.pos) : st.pos[j].key = z].vals
      startIdx == posOf(size)
      endIdx == IF i + 1 <= Len(detected) THEN posOf(detected[i + 1]) ELSE Len(st.all)
      nums == SubSeq(st.all, startIdx + 1, endIdx)
      upto == IF Len(nums) < 6 THEN Len(nums) ELSE 6
      \* zero-based j even goes to L, odd to XL
      lKeys == {k \in 1..3 : 2 * k - 1 <= upto}
      xlKeys == {k \in 1..3 : 2 * k <= upto}
      lRow == Row("L", [key \in {OCRMeasurements[k] : k \in lKeys} |-> nums[2 * IndexOf(OCRMeasurements, key) - 1]])
      xlRow == Row("XL", [key \in {OCRMeasurements[k] : k \in xlKeys} |-> nums[2 * IndexOf(OCRMeasurements, key)]])
      n3 == IF Len(nums) < 3 THEN Len(nums) ELSE 3
      row == Row(size, [key \in {OCRMeasurements[k] : k \in 1..n3} |-> nums[IndexOf(OCRMeasurements, key)]])
  IN IF size = "XL" /\ Len(nums) >= 6 /\ ~SeqContains(detected, "L")
     THEN SelectSeq(<<lRow, xlRow>>, LAMBDA r : KeyCount(r) > 1)
     ELSE IF Len(nums) >= 3 THEN SelectSeq(<<row>>, LAMBDA r : KeyCount(r) > 1)
     ELSE <<>>

ParseOCRSpecificFormat(lines) ==
  LET SRows(mv) ==
        IF Len(mv) >= 2
        THEN << Row("S", [key \in {mv[j].key : j \in 1..Len(mv)} |->
                            mv[CHOOSE j \in 1..Len(mv) : mv[j].key = key].vals[1]]) >>
        ELSE <<>>
      FromSizes(st, detected) ==
        [headers |-> OCRMeasurements,
         rows |-> SortByKey(SRows(st.mv) \o Flatten([i \in 1..Len(detected) |-> OCRSizeRows(st, detected, i)]),
                            LAMBDA r : OrderIndex(OCRSizeOrder, r.size))]
      FromScan(st) == FromSizes(st, SortByKey(Keys(st.pos), LAMBDA x : OrderIndex(OCRSizeOrder, x)))
  IN FromScan(OCRSpecificScan([all |-> <<>>, pos |-> <<>>, first |-> FALSE, mv |-> <<>>, cur |-> NoKey],
                              lines))

(* ---------- parseNumericSizeFormat ---------- *)

ReflowKeywords == {"length", "shoulder", "chest", "sleeve", "waist", "hip"}

\* the text as one stream of tokens, each with eol: it ends its line
TokenStream(lines) ==
  Flatten([i \in 1..Len(lines) |->
            [j \in 1..Len(lines[i]) |-> [t |-> lines[i][j], eol |-> j = Len(lines[i])]]])

\* the .replace chain of the single-line case: a line break before every Size that a blank
\* follows and before every measurement keyword and Recommended; the blanks (line breaks
\* too) after Size and after a measurement keyword become one blank
RECURSIVE ReflowFrom(_, _, _, _)
ReflowFrom(stream, i, cur, out) ==
  IF i > Len(stream) THEN (IF cur = <<>> THEN out ELSE Append(out, cur))
  ELSE LET x == stream[i]
           isKw == x.t.k = "w" /\ Lower(x.t.s) \in ReflowKeywords
           isRec == IsWord(x.t, "recommended")
           isSize == IsWord(x.t, "size") /\ i < Len(stream) /\ stream[i + 1].t.k # "c"
           before == isKw \/ isRec \/ isSize
           out1 == IF before /\ cur # <<>> THEN Append(out, cur) ELSE out
           cur1 == IF before THEN <<x.t>> ELSE Append(cur, x.t)
           ends == x.eol /\ ~isKw /\ ~isSize
       IN IF ends THEN ReflowFrom(stream, i + 1, <<>>, Append(out1, cur1))
          ELSE ReflowFrom(stream, i + 1, cur1, out1)

NormalizedLines(lines) ==
  IF Len(lines) < 3 THEN ReflowFrom(TokenStream(lines), 1, <<>>, <<>>) ELSE lines

\* line.substring(lowerLine.indexOf(word) + word.length): the tokens after the first such word
AfterWord(line, word) ==
  LET p == CHOOSE i \in 1..Len(line) : IsWord(line[i], word) /\ \A j \in 1..(i - 1) : ~IsWord(line[j], word)
  IN SubSeq(line, p + 1, Len(line))

\* the sizes after the word Size on one line: EU sizes first, then single digits
NumericSizesOfLine(line) ==
  LET after == AfterWord(line, "size")
      eu == MapSeq(SelectSeq(after, IsEUSize), LAMBDA t : ToString(t.n))
      digits == MapSeq(SelectSeq(after, IsSingleDigit), LAMBDA t : ToString(t.n))
  IN IF ~Includes(line, <<"size">>) THEN <<>>
     ELSE IF Len(eu) >= 2 THEN eu
     ELSE IF Len(digits) >= 2 THEN digits
     ELSE <<>>

\* the first line that gives sizes: [idx, sizes], idx = 0 when there is none
RECURSIVE NumericSizeLine(_, _)
NumericSizeLine(lines, i) ==
  LET FromSizes(sizes) ==
        IF Len(sizes) >= 2 THEN [idx |-> i, sizes |-> sizes] ELSE NumericSizeLine(lines, i + 1)
  IN IF i > Len(lines) THEN [idx |-> 0, sizes |-> <<>>] ELSE FromSizes(NumericSizesOfLine(lines[i]))

NumericKeywords ==
  << [kw |-> <<"chest">>, name |-> "chest"],
     [kw |-> <<"bust">>, name |-> "chest"],
     [kw |-> <<"length">>, name |-> "length"],
     [kw |-> <<"pants", "length">>, name |-> "length"],
     [kw |-> <<"shoulder">>, name |-> "shoulder"],
     [kw |-> <<"sleeve">>, name |-> "sleeve"],
     [kw |-> <<"waist">>, name |-> "waist"],
     [kw |-> <<"hip">>, name |-> "hip"],
     [kw |-> <<"leg", "opening">>, name |-> "legOpening"],
     [kw |-> <<"thigh">>, name |-> "thigh"],
     [kw |-> <<"inseam">>, name |-> "inseam"] >>

NumericMinValue == 20

NumericMaxValue == 200

NumericContinuation == <<"sleeve", "chest", "length", "shoulder">>

\* the body of the loop over the lines other than the size line
NumericLine(md, line, nSizes) ==
  LET found == FirstKeyword(line, NumericKeywords)
      numbers == NumbersOf(line)
      values == SelectSeq(numbers, LAMBDA v : v >= NumericMinValue /\ v <= NumericMaxValue)
      mv == Take(values, nSizes)
      free == SelectSeq(NumericContinuation, LAMBDA m : ~HasKey(md, m))
  IN IF Includes(line, <<"recommended">>) \/ Includes(line, <<"weight">>) THEN md
     ELSE IF numbers = <<>> THEN md
     ELSE IF Len(values) < nSizes THEN md
     ELSE IF found # NoKey THEN Put(md, found, found, mv)
     ELSE IF Len(md) > 0 /\ free # <<>> THEN Put(md, free[1], free[1], mv)
     ELSE md

RECURSIVE NumericData(_, _, _, _, _)
NumericData(md, lines, i, sizeLineIdx, nSizes) ==
  IF i > Len(lines) THEN md
  ELSE IF i = sizeLineIdx THEN NumericData(md, lines, i + 1, sizeLineIdx, nSizes)
  ELSE NumericData(NumericLine(md, lines[i], nSizes), lines, i + 1, sizeLineIdx, nSizes)

ParseNumericSizeFormat(textLines) ==
  LET FromRows(sizes, md, rows) ==
        IF Len(sizes) < 2 THEN EmptyResult
        ELSE IF Len(md) >= 1 /\ Len(rows) >= 2 THEN [headers |-> Keys(md), rows |-> rows]
        ELSE EmptyResult
      FromData(sizes, md) == FromRows(sizes, md, BuildRows(sizes, md))
      FromSizeLine(lines, sl) ==
        FromData(sl.sizes, NumericData(<<>>, lines, 1, sl.idx, Len(sl.sizes)))
      FromLines(lines) == FromSizeLine(lines, NumericSizeLine(lines, 1))
  IN FromLines(NormalizedLines(textLines))

(* ---------- getMeasurementKey (translations.js) ---------- *)

\* MEASUREMENT_KEYS[term.trim()] || null, for the one-word terms
GetMeasurementKey(term) ==
  CASE term = "Length" -> "length" [] term = "Chest" -> "chest"
    [] term = "Shoulder" -> "shoulder" [] term = "Sleeve" -> "sleeve"
    [] term = "Cuff" -> "cuff" [] term = "Waist" -> "waist" [] term = "Hip" -> "hip"
    [] term = "Thigh" -> "thigh" [] term = "Hem" -> "hem"
    [] OTHER -> NoKey

\* getMeasurementKey(term) || term.toLowerCase()
MeasurementKeyOf(term) == IF GetMeasurementKey(term) # NoKey THEN GetMeasurementKey(term) ELSE Lower(term)

\* numbers.forEach((num, idx) => { if (idx < keys.length) row[keys[idx]] = num }): a later
\* number overwrites an earlier one under the same key
ValuesByKeys(keys, nums) ==
  LET n == IF Len(keys) < Len(nums) THEN Len(keys) ELSE Len(nums)
  IN [key \in {keys[i] : i \in 1..n} |->
        nums[CHOOSE i \in 1..n : keys[i] = key /\ \A j \in (i + 1)..n : keys[j] # key]]

(* ---------- parseRowBasedTable ---------- *)

RowHeaderWords == {"size", "chest", "length", "shoulder", "sleeve", "waist", "hip", "hem", "thigh"}

RowSkipWords == {"size", "shoulder", "chest", "length", "sleeve", "waist", "hip"}

\* k.charAt(0).toUpperCase() + k.slice(1).toLowerCase()
Capitalize(s) ==
  LET w == Lower(s)
  IN CASE w = "size" -> "Size" [] w = "chest" -> "Chest" [] w = "length" -> "Length"
       [] w = "shoulder" -> "Shoulder" [] w = "sleeve" -> "Sleeve" [] w = "waist" -> "Waist"
       [] w = "hip" -> "Hip" [] w = "hem" -> "Hem" [] w = "thigh" -> "Thigh"
       [] OTHER -> s

HeaderMatches(line) == SelectSeq(line, LAMBDA t : t.k = "w" /\ Lower(t.s) \in RowHeaderWords)

\* the first pass: the measurement names of the first line holding two or more keywords
RowBasedHeaders(lines) ==
  LET hs == SelectSeq(lines, LAMBDA l : Len(HeaderMatches(l)) >= 2)
  IN IF hs = <<>> THEN <<>>
     ELSE MapSeq(SelectSeq(HeaderMatches(hs[1]), LAMBDA t : Lower(t.s) # "size"), LAMBDA t : Capitalize(t.s))

\* sizeRowPattern: the line starts with a letter size that a blank, a digit or the end follows
StartsWithSizeLabel(line) == Len(line) >= 1 /\ IsLetterSize(line[1]) /\ (Len(line) >= 2 => line[2].k # "c")

\* the body of the second loop: rows after one line
RowBasedLine(rows, line, headers) ==
  LET startsWithSizeAndNum == Len(line) >= 2 /\ IsLetterSize(line[1]) /\ line[2].k = "n"
      headerLike == \E i \in 1..Len(line) : line[i].k = "w" /\ Lower(line[i].s) \in RowSkipWords
      size == Upper(line[1].s)
      numbers == TableNumbersOf(Tail(line))
      keys == IF Len(headers) > 0 THEN headers ELSE <<"shoulder", "chest", "length", "sleeve">>
      row == Row(size, ValuesByKeys(MapSeq(keys, MeasurementKeyOf), numbers))
  IN IF headerLike /\ ~startsWithSizeAndNum THEN rows
     ELSE IF ~StartsWithSizeLabel(line) THEN rows
     ELSE IF Len(numbers) < 1 THEN rows
     ELSE IF \E i \in 1..Len(rows) : rows[i].size = size THEN rows
     ELSE Append(rows, row)

RECURSIVE RowBasedRows(_, _, _)
RowBasedRows(rows, lines, headers) ==
  IF lines = <<>> THEN rows
  ELSE RowBasedRows(RowBasedLine(rows, Head(lines), headers), Tail(lines), headers)

ParseRowBasedTable(lines) ==
  LET FromHeaders(headers) == [headers |-> headers, rows |-> RowBasedRows(<<>>, lines, headers)]
  IN FromHeaders(RowBasedHeaders(lines))

(* ---------- parseByPosition ---------- *)

PositionHeaders == <<"shoulder", "chest", "length">>

PositionSkipWords == {"size", "shoulder", "chest", "length", "cm", "tips", "error"}

NoSize == ""

\* the body of the loop over lines; st = [sizes, mrows], mrows the entries [size, numbers]
ByPositionLine(st, line) ==
  LET standalone == Len(line) = 1 /\ IsLetterSize(line[1])
      withNumbers == Len(line) >= 2 /\ IsLetterSize(line[1]) /\ IsTableNumber(line[2])
      size == Upper(line[1].s)
      sizes1 == IF SeqContains(st.sizes, size) THEN st.sizes ELSE Append(st.sizes, size)
      after == TableNumbersOf(Tail(line))
      numbers == TableNumbersOf(line)
      skip == \E i \in 1..Len(line) : line[i].k = "w" /\ Lower(line[i].s) \in PositionSkipWords
  IN IF standalone THEN [st EXCEPT !.sizes = sizes1]
     ELSE IF withNumbers
     THEN [sizes |-> sizes1,
           mrows |-> IF Len(after) >= 2 THEN Append(st.mrows, [size |-> size, numbers |-> after]) ELSE st.mrows]
     ELSE IF Len(numbers) >= 2 /\ ~skip
     THEN [st EXCEPT !.mrows = Append(st.mrows, [size |-> NoSize, numbers |-> numbers])]
     ELSE st

RECURSIVE ByPositionScan(_, _)
ByPositionScan(st, lines) ==
  IF lines = <<>> THEN st ELSE ByPositionScan(ByPositionLine(st, Head(lines)), Tail(lines))

\* rows of the measurement rows that carry a size, the first row of each size
RECURSIVE SizedRows(_, _)
SizedRows(rows, mrows) ==
  IF mrows = <<>> THEN rows
  ELSE LET mr == Head(mrows)
       IN IF mr.size # NoSize /\ ~(\E i \in 1..Len(rows) : rows[i].size = mr.size)
          THEN SizedRows(Append(rows, Row(mr.size, ValuesByKeys(PositionHeaders, mr.numbers))), Tail(mrows))
          ELSE SizedRows(rows, Tail(mrows))

ParseByPosition(lines) ==
  LET \* the fallback: the rows without a size matched to the sizes by index
      ByIndex(sizes, unmatched) ==
        LET n == IF Len(sizes) < Len(unmatched) THEN Len(sizes) ELSE Len(unmatched)
        IN [i \in 1..n |-> Row(sizes[i], ValuesByKeys(PositionHeaders, unmatched[i].numbers))]
      FromRows(st, sized, byIndex) ==
        IF Len(st.mrows) > 0 /\ (\E i \in 1..Len(st.mrows) : st.mrows[i].size # NoSize) /\ Len(sized) >= 2
        THEN [headers |-> PositionHeaders, rows |-> sized]
        ELSE IF Len(st.sizes) >= 2 /\ Len(st.mrows) >= 2 /\ Len(byIndex) >= 2
        THEN [headers |-> PositionHeaders, rows |-> byIndex]
        ELSE EmptyResult
      FromScan(st) ==
        FromRows(st,
                 SortByKey(SizedRows(<<>>, st.mrows), LAMBDA r : OrderIndex(SIZE_ORDER, r.size)),
                 ByIndex(st.sizes, SelectSeq(st.mrows, LAMBDA r : r.size = NoSize)))
  IN FromScan(ByPositionScan([sizes |-> <<>>, mrows |-> <<>>], lines))

(* ---------- parseInlineFormat ---------- *)

InlineKeywords ==
  << [kw |-> <<"shoulder">>, name |-> "shoulder"],
     [kw |-> <<"chest">>, name |-> "chest"],
     [kw |-> <<"length">>, name |-> "length"],
     [kw |-> <<"sleeve">>, name |-> "sleeve"],
     [kw |-> <<"waist">>, name |-> "waist"],
     [kw |-> <<"hip">>, name |-> "hip"],
     [kw |-> <<"thigh">>, name |-> "thigh"],
     [kw |-> <<"bust">>, name |-> "chest"],
     [kw |-> <<"front">>, name |-> "length"],
     [kw |-> <<"hem">>, name |-> "hem"] >>

\* sizeValuePattern: the places where a letter size is followed by a two- or three-digit number
SizeValuePlaces(line) ==
  SelectSeq([i \in 1..Len(line) |-> i],
            LAMBDA i : IsLetterSize(line[i]) /\ i + 1 <= Len(line) /\ IsTableNumber(line[i + 1]))

\* the body of the loop over lines; st = [md, all]; the vals of an md entry map sizes to values
InlineLine(st, line) ==
  LET found == FirstKeyword(line, InlineKeywords)
      places == SizeValuePlaces(line)
      sizes == Dedup(MapSeq(places, LAMBDA i : Upper(line[i].s)))
      sizeValues == [z \in {sizes[i] : i \in 1..Len(sizes)} |->
                       line[1 + CHOOSE i \in 1..Len(line) :
                                  /\ SeqContains(places, i) /\ Upper(line[i].s) = z
                                  /\ \A j \in (i + 1)..Len(line) : ~(SeqContains(places, j) /\ Upper(line[j].s) = z)].n]
  IN IF found = NoKey THEN st
     ELSE [md |-> IF Len(sizes) >= 2 THEN Put(st.md, found, found, sizeValues) ELSE st.md,
           all |-> Dedup(st.all \o sizes)]

RECURSIVE InlineScan(_, _)
InlineScan(st, lines) ==
  IF lines = <<>> THEN st ELSE InlineScan(InlineLine(st, Head(lines)), Tail(lines))

\* 999 stands in for a size that is not in the size order
InlineOrderIndex(x) == IF OrderIndex(SIZE_ORDER, x) = -1 THEN 999 ELSE OrderIndex(SIZE_ORDER, x)

ParseInlineFormat(lines) ==
  LET RowOf(md, z) ==
        LET have == {j \in 1..Len(md) : z \in DOMAIN md[j].vals}
        IN Row(z, [key \in {md[j].key : j \in have} |-> md[CHOOSE j \in have : md[j].key = key].vals[z]])
      FromRows(st, rows) ==
        IF Len(st.md) > 0 /\ Len(st.all) >= 2 /\ Len(rows) >= 2
        THEN [headers |-> Keys(st.md), rows |-> rows]
        ELSE EmptyResult
      FromScan(st) ==
        FromRows(st, SelectSeq(MapSeq(SortByKey(st.all, InlineOrderIndex), LAMBDA z : RowOf(st.md, z)),
                               LAMBDA r : KeyCount(r) > 1))
  IN FromScan(InlineScan([md |-> <<>>, all |-> <<>>], lines))

(* ---------- parseColumnBasedTable ---------- *)

ColumnDefaultNames == <<"shoulder", "chest", "length", "sleeve">>

LetterSizesOf(line) == MapSeq(SelectSeq(line, IsLetterSize), LAMBDA t : Upper(t.s))

\* the body of the loop over the lines other than the size row; st = [rows, names]
ColumnBasedLine(st, line, nSizes) ==
  LET name == FirstKeyword(line, InlineKeywords)
      numbers == TableNumbersOf(line)
      idx == Len(st.rows) + 1
      header == IF name # NoKey THEN name
                ELSE IF idx <= Len(ColumnDefaultNames) THEN ColumnDefaultNames[idx]
                ELSE "measurement" \o ToString(idx)
  IN IF Len(numbers) >= nSizes
     THEN [rows |-> Append(st.rows, Take(numbers, nSizes)), names |-> Append(st.names, header)]
     ELSE st

RECURSIVE ColumnBasedScan(_, _, _, _, _)
ColumnBasedScan(st, lines, i, sizeRowIndex, nSizes) ==
  IF i > Len(lines) THEN st
  ELSE IF i = sizeRowIndex THEN ColumnBasedScan(st, lines, i + 1, sizeRowIndex, nSizes)
  ELSE ColumnBasedScan(ColumnBasedLine(st, lines[i], nSizes), lines, i + 1, sizeRowIndex, nSizes)

ParseColumnBasedTable(lines) ==
  LET FromRows(sizes, st, rows) ==
        IF Len(sizes) < 2 THEN EmptyResult
        ELSE IF Len(st.rows) >= 1 /\ Len(rows) >= 2 THEN [headers |-> st.names, rows |-> rows]
        ELSE EmptyResult
      FromScan(sizes, st) ==
        FromRows(sizes, st,
                 SelectSeq([z \in 1..Len(sizes) |->
                              Row(sizes[z], ValuesByKeys(st.names, [j \in 1..Len(st.rows) |-> st.rows[j][z]]))],
                           LAMBDA r : KeyCount(r) > 1))
      FromSizes(sizeRowIndex, sizes) ==
        FromScan(sizes, ColumnBasedScan([rows |-> <<>>, names |-> <<>>], lines, 1, sizeRowIndex, Len(sizes)))
      \* the first line with two or more letter sizes, 0 when there is none
      FromSizeRow(sizeRowIndex) ==
        FromSizes(sizeRowIndex, IF sizeRowIndex = 0 THEN <<>> ELSE Dedup(LetterSizesOf(lines[sizeRowIndex])))
      FromSizeRows(sizeRows) == FromSizeRow(IF sizeRows = <<>> THEN 0 ELSE sizeRows[1])
      FromInline(inline) ==
        IF Len(inline.rows) > 0 THEN inline
        ELSE FromSizeRows(SelectSeq([i \in 1..Len(lines) |-> i],
                                    LAMBDA i : Len(LetterSizesOf(lines[i])) >= 2))
  IN FromInline(ParseInlineFormat(lines))

(* ---------- parseVerticalFormat ---------- *)

VerticalKeywords ==
  << [kw |-> <<"shoulder">>, name |-> "shoulder"],
     [kw |-> <<"chest">>, name |-> "chest"],
     [kw |-> <<"length">>, name |-> "length"],
     [kw |-> <<"sleeve">>, name |-> "sleeve"],
     [kw |-> <<"waist">>, name |-> "waist"],
     [kw |-> <<"hip">>, name |-> "hip"],
     [kw |-> <<"thigh">>, name |-> "thigh"],
     [kw |-> <<"inseam">>, name |-> "inseam"],
     [kw |-> <<"hem">>, name |-> "hem"],
     [kw |-> <<"bust">>, name |-> "chest"],
     [kw |-> <<"front">>, name |-> "length"] >>

\* lowerText.indexOf(keyword) as the place of the first token spelling it, 0 when absent
KeywordPosition(tokens, kw) ==
  IF \E i \in 1..Len(tokens) : IsWord(tokens[i], kw)
  THEN CHOOSE i \in 1..Len(tokens) : IsWord(tokens[i], kw) /\ \A j \in 1..(i - 1) : ~IsWord(tokens[j], kw)
  ELSE 0

\* the measurements in the order in which their keywords first appear in the text
FoundMeasurements(lines) ==
  LET tokens == Flatten(lines)
      present == SelectSeq(VerticalKeywords, LAMBDA e : KeywordPosition(tokens, e.kw[1]) > 0)
      sorted == SortByKey(present, LAMBDA e : KeywordPosition(tokens, e.kw[1]))
      names == Dedup(MapSeq(sorted, LAMBDA e : e.name))
  IN IF names = <<>> THEN <<"shoulder", "chest", "length">> ELSE names

\* the word w contains the size label spelled sp (String.indexOf is case-sensitive)
ContainsSpelling(w, sp) ==
  \/ w = sp
  \/ sp = "S" /\ w \in {"Size", "SIZE", "Shoulder", "Sleeve"}
  \/ sp = "L" /\ w \in {"Length", "Leg", "XL"}
  \/ sp = "s" /\ w \in {"Chest", "Pants", "Waist", "Inseam", "Bust"}
  \/ sp = "m" /\ w \in {"Hem", "Inseam", "Recommended"}
  \/ sp = "l" /\ w \in {"Shoulder", "Sleeve", "xl"}

\* line.substring(line.indexOf(sizeMatch[0]) + sizeMatch[0].length): its two- or three-digit numbers
NumbersAfterSpelling(line, sp) ==
  LET p == CHOOSE i \in 1..Len(line) :
             /\ line[i].k = "w" /\ ContainsSpelling(line[i].s, sp)
             /\ \A j \in 1..(i - 1) : ~(line[j].k = "w" /\ ContainsSpelling(line[j].s, sp))
  IN TableNumbersOf(SubSeq(line, p + 1, Len(line)))

\* the first pass: rows after one line
VerticalSizeLine(rows, line, found) ==
  LET sizeTokens == SelectSeq(line, IsLetterSize)
      size == Upper(sizeTokens[1].s)
      numbers == NumbersAfterSpelling(line, sizeTokens[1].s)
  IN IF sizeTokens = <<>> THEN rows
     ELSE IF Len(numbers) > 0 /\ ~(\E i \in 1..Len(rows) : rows[i].size = size)
     THEN Append(rows, Row(size, ValuesByKeys(found, numbers)))
     ELSE rows

RECURSIVE VerticalSizeRows(_, _, _)
VerticalSizeRows(rows, lines, found) ==
  IF lines = <<>> THEN rows
  ELSE VerticalSizeRows(VerticalSizeLine(rows, Head(lines), found), Tail(lines), found)

\* the second pass: firstSizeValues after one line
VerticalFirstSizeLine(fsv, line) ==
  LET name == FirstKeyword(line, VerticalKeywords)
      numbers == TableNumbersOf(line)
  IN IF \E i \in 1..Len(line) : IsLetterSize(line[i]) THEN fsv
     ELSE IF name # NoKey /\ Len(numbers) > 0 THEN Put(fsv, name, name, <<numbers[1]>>)
     ELSE fsv

RECURSIVE VerticalFirstSize(_, _)
VerticalFirstSize(fsv, lines) ==
  IF lines = <<>> THEN fsv ELSE VerticalFirstSize(VerticalFirstSizeLine(fsv, Head(lines)), Tail(lines))

\* the last resort: the numbers of the text dealt out to its size labels
VerticalDistributed(lines, found) ==
  LET tokens == Flatten(lines)
      allNumbers == TableNumbersOf(tokens)
      allSizes == Dedup(LetterSizesOf(tokens))
      numPerSize == IF allSizes = <<>> THEN 0 ELSE Len(allNumbers) \div Len(allSizes)
      n == IF numPerSize < Len(found) THEN numPerSize ELSE Len(found)
  IN IF Len(allSizes) > 0 /\ Len(allNumbers) > 0 /\ numPerSize > 0
     THEN [i \in 1..Len(allSizes) |->
             Row(allSizes[i], [key \in {found[j] : j \in 1..n} |->
                                 allNumbers[(i - 1) * numPerSize + IndexOf(found, key)]])]
     ELSE <<>>

ParseVerticalFormat(lines) ==
  LET FromPasses(found, sized, fsv) ==
        [headers |-> found,
         rows |-> IF Len(sized) > 0
                  THEN (IF Len(fsv) > 0 /\ ~(\E i \in 1..Len(sized) : sized[i].size = "S")
                        THEN <<Row("S", RowValues(fsv, 1))>> \o sized ELSE sized)
                  ELSE VerticalDistributed(lines, found)]
      FromFound(found) ==
        FromPasses(found, VerticalSizeRows(<<>>, lines, found), VerticalFirstSize(<<>>, lines))
  IN FromFound(FoundMeasurements(lines))

(* ---------- parseAlternativeFormat ---------- *)

TokenText(t) == IF t.k = "n" THEN ToString(t.n) ELSE t.s

IsWordChars(t) == t.k \in {"w", "n"}

\* getMeasurementKey(label) || label.toLowerCase() for a label of two words; sep is the white
\* space between them, and only the terms written with one blank are in MEASUREMENT_KEYS
TwoWordKey(a, b, sep) ==
  CASE sep = " " /\ b = "Length" /\ a \in {"Total", "Body", "Front", "Pants"} -> "length"
    [] sep = " " /\ b = "Width" /\ a = "Chest" -> "chest"
    [] sep = " " /\ b = "Width" /\ a = "Hip" -> "hip"
    [] sep = " " /\ b = "Opening" /\ a = "Leg" -> "legOpening"
    [] OTHER -> Lower(a) \o sep \o Lower(b)

\* the number tokens from place i on: the digits and blanks [\d\s.]+ takes
RECURSIVE NumberRun(_, _)
NumberRun(stream, i) ==
  IF i <= Len(stream) /\ stream[i].t.k = "n" THEN <<stream[i].t.n>> \o NumberRun(stream, i + 1) ELSE <<>>

\* one match of labelPattern at the colon in place c; prevEnd is the last place the match
\* before took; st = [md, headers]
ColonMatch(st, stream, c, prevEnd) ==
  LET two == c - 2 > prevEnd /\ IsWordChars(stream[c - 2].t)
      a == TokenText(stream[c - 2].t)
      b == TokenText(stream[c - 1].t)
      sep == IF stream[c - 2].eol THEN "\n" ELSE " "
      label == IF two THEN a \o sep \o b ELSE b
      key == IF two THEN TwoWordKey(a, b, sep) ELSE MeasurementKeyOf(b)
      values == NumberRun(stream, c + 1)
  IN IF values = <<>> THEN st
     ELSE [md |-> Put(st.md, key, key, values),
           headers |-> IF SeqContains(st.headers, label) THEN st.headers ELSE Append(st.headers, label)]

RECURSIVE ColonScan(_, _, _, _)
ColonScan(st, stream, c, prevEnd) ==
  IF c > Len(stream) THEN st
  ELSE IF stream[c].t.k = "c" /\ c - 1 > prevEnd /\ IsWordChars(stream[c - 1].t)
  THEN ColonScan(ColonMatch(st, stream, c, prevEnd), stream, c + 1, c + Len(NumberRun(stream, c + 1)))
  ELSE ColonScan(st, stream, c + 1, prevEnd)

\* /\b(XXS|...|5XL|\d{2})\b/gi, upper-cased and without repeats
ColonSizes(tokens) ==
  Dedup(MapSeq(SelectSeq(tokens, LAMBDA t : IsLetterSize(t) \/ (t.k = "n" /\ t.n >= 10 /\ t.n <= 99)),
               LAMBDA t : IF t.k = "n" THEN ToString(t.n) ELSE Upper(t.s)))

MaxLen(md) == CHOOSE n \in {Len(md[j].vals) : j \in 1..Len(md)} : \A j \in 1..Len(md) : Len(md[j].vals) <= n

\* row i of the colon format; a measurement stored under the key size replaces the label
ColonRow(md, sizes, i) ==
  LET label == IF i <= Len(sizes) THEN sizes[i] ELSE "Size" \o ToString(i)
      all == RowValues(md, i)
  IN Row(IF "size" \in DOMAIN all THEN ToString(all["size"]) ELSE label,
         [key \in DOMAIN all \ {"size"} |-> all[key]])

ParseAlternativeFormat(lines) ==
  LET sizes == ColonSizes(Flatten(lines))
      \* the result of the colon pattern, st its measurementData and headers
      FromColons(st, verticalResult) ==
        IF st.md = <<>>
        THEN (IF Len(verticalResult.rows) > 0 THEN verticalResult ELSE EmptyResult)
        ELSE [headers |-> st.headers, rows |-> [i \in 1..MaxLen(st.md) |-> ColonRow(st.md, sizes, i)]]
      Result(columnResult) ==
        IF Len(columnResult.rows) > 0 THEN columnResult
        ELSE FromColons(ColonScan([md |-> <<>>, headers |-> <<>>], TokenStream(lines), 1, 0),
                        ParseVerticalFormat(lines))
  IN Result(ParseColumnBasedTable(lines))

(* ---------- parseSizeChart ---------- *)

Null == "null"

\* the four .replace calls: $d and Sd read as 5d, d$ and dS as d5
FixToken(t) ==
  IF t.k # "g" THEN t
  ELSE IF t.s \in {"$d", "Sd"} THEN N(50 + t.n) ELSE N(10 * t.n + 5)

\* the text without the four .replace calls
LeaveOCRErrors(lines) == lines

FixOCRErrors(lines) == MapSeq(lines, LAMBDA l : MapSeq(l, FixToken))

\* CN_TO_EN, the Chinese terms written in pinyin
CN_TO_EN(s) ==
  CASE s = "chima" -> <<W("Size")>>
    [] s = "yichang" -> <<W("Length")>>
    [] s = "xiongwei" -> <<W("Chest")>>
    [] s = "jiankuan" -> <<W("Shoulder")>>
    [] s = "yaowei" -> <<W("Waist")>>
    [] s = "tunwei" -> <<W("Hip")>>
    [] s = "kuchang" -> <<W("Pants"), W("Length")>>
    [] OTHER -> <<[k |-> "z", s |-> s, n |-> 0]>>

TranslateChinese(lines) ==
  MapSeq(lines, LAMBDA l : Flatten(MapSeq(l, LAMBDA t : IF t.k = "z" THEN CN_TO_EN(t.s) ELSE <<t>>)))

StrategyNames == <<"columnGrouped", "ocrSpecific", "numericSize", "rowBased", "alternative", "positional">>

\* the six single-table strategies in the order they are tried, each with its result and
\* whether the result is pushed onto results
Strategies(lines) ==
  LET Tried(name, result, minRows) ==
        [name |-> name, result |-> result, admitted |-> Len(result.rows) >= minRows]
  IN << Tried("columnGrouped", ParseColumnGroupedFormat(lines), 2),
        Tried("ocrSpecific", ParseOCRSpecificFormat(lines), 3),
        Tried("numericSize", ParseNumericSizeFormat(lines), 2),
        Tried("rowBased", ParseRowBasedTable(lines), 1),
        Tried("alternative", ParseAlternativeFormat(lines), 1),
        Tried("positional", ParseByPosition(lines), 1) >>

\* result.rows.length * Object.keys(result.rows[0] || {}).length
ResultScore(result) == IF result.rows = <<>> THEN 0 ELSE Len(result.rows) * KeyCount(result.rows[1])

\* a variant in which a later result with the same score replaces the best one
RECURSIVE PickLatestBest(_, _, _)
PickLatestBest(results, best, bestScore) ==
  IF results = <<>> THEN best
  ELSE IF ResultScore(Head(results).result) >= bestScore
  THEN PickLatestBest(Tail(results), Head(results), ResultScore(Head(results).result))
  ELSE PickLatestBest(Tail(results), best, bestScore)

\* the loop over results: a later result replaces the best one only with a higher score
RECURSIVE PickBest(_, _, _)
PickBest(results, best, bestScore) ==
  IF results = <<>> THEN best
  ELSE IF ResultScore(Head(results).result) > bestScore
  THEN PickBest(Tail(results), Head(results), ResultScore(Head(results).result))
  ELSE PickBest(Tail(results), best, bestScore)

NoStrategy == [name |-> "none", result |-> EmptyResult, admitted |-> FALSE]

UnionHeaders(tables) == Dedup(Flatten(MapSeq(tables, LAMBDA t : t.headers)))

\* the chart of the multi-table path; tried lists the single-table strategies that ran
MultiTableChart(tables, translatedText) ==
  [headers |-> UnionHeaders(tables), rows |-> tables[1].rows, tables |-> tables,
   translatedText |-> translatedText, path |-> "multi", strategy |-> "none", tried |-> <<>>,
   results |-> <<>>]

\* a variant that wraps the best result into tables even when it has no rows
FallbackChartAlwaysTable(results, translatedText) ==
  LET best == PickBest(results, NoStrategy, 0)
  IN [headers |-> best.result.headers, rows |-> best.result.rows, tables |-> <<best.result>>,
      translatedText |-> translatedText, path |-> "fallback", strategy |-> best.name,
      tried |-> StrategyNames, results |-> results]

\* the chart of the single-table fallback, from the best of the admitted results; results
\* keeps the admitted results in the order they were pushed
FallbackChart(results, translatedText) ==
  LET best == PickBest(results, NoStrategy, 0)
  IN [headers |-> best.result.headers, rows |-> best.result.rows,
      tables |-> IF Len(best.result.rows) > 0 THEN <<best.result>> ELSE <<>>,
      translatedText |-> translatedText, path |-> "fallback", strategy |-> best.name,
      tried |-> StrategyNames, results |-> results]

EmptyChart ==
  [headers |-> <<>>, rows |-> <<>>, tables |-> <<>>, translatedText |-> <<>>,
   path |-> "empty", strategy |-> "none", tried |-> <<>>, results |-> <<>>]

\* a variant that runs the single-table strategies first and prefers their best result
ParseSizeChartStrategiesFirst(rawText) ==
  IF rawText = Null \/ rawText = <<>> THEN EmptyChart
  ELSE LET Chart(translatedText, multi, results) ==
             IF Len(results) >= 1 \/ Len(multi) = 0
             THEN FallbackChart(results, translatedText)
             ELSE MultiTableChart(multi, translatedText)
           FromText(translatedText) ==
             Chart(translatedText, ParseMultipleTables(translatedText),
                   SelectSeq(Strategies(translatedText), LAMBDA r : r.admitted))
       IN FromText(TranslateChinese(FixOCRErrors(rawText)))

\* the chart returned for rawText, with the path taken and the strategy whose result it is
ParseSizeChart(rawText) ==
  IF rawText = Null \/ rawText = <<>> THEN EmptyChart
  ELSE LET Chart(translatedText, multi) ==
             IF Len(multi) >= 1 THEN MultiTableChart(multi, translatedText)
             ELSE FallbackChart(SelectSeq(Strategies(translatedText), LAMBDA r : r.admitted),
                                translatedText)
           FromText(translatedText) == Chart(translatedText, ParseMultipleTables(translatedText))
       IN FromText(TranslateChinese(FixOCRErrors(rawText)))

(* ---------- lib/translations.js: the size order ---------- *)

NUMERIC_SIZE_ORDER == <<"44", "46", "48", "50", "52", "54", "56", "58">>

NaN == -1

\* parseInt(s) of a size label: the number its leading digits spell (3 for 3XL), NaN when it
\* does not start with a digit
ParseInt(s) ==
  IF \E n \in 0..99 : ToString(n) = s THEN CHOOSE n \in 0..99 : ToString(n) = s
  ELSE IF s = "3XL" THEN 3
  ELSE IF s = "4XL" THEN 4
  ELSE IF s = "5XL" THEN 5
  ELSE NaN

NoSizeUp == "null"

GetNextSizeUp(currentSize) ==
  LET normalized == Upper(currentSize)
      letterIndex == OrderIndex(SIZE_ORDER, normalized)
      numericIndex == OrderIndex(NUMERIC_SIZE_ORDER, normalized)
  IN IF letterIndex # -1 /\ letterIndex < Len(SIZE_ORDER) - 1 THEN SIZE_ORDER[letterIndex + 2]
     ELSE IF numericIndex # -1 /\ numericIndex < Len(NUMERIC_SIZE_ORDER) - 1
     THEN NUMERIC_SIZE_ORDER[numericIndex + 2]
     ELSE IF ParseInt(normalized) # NaN THEN ToString(ParseInt(normalized) + 2)
     ELSE NoSizeUp

\* compareSizes(a, b) as a - b of a sort key, for size lists that are all letters or all numbers
\* (a pair of one letter size and one number compares as equal)
CompareKey(size) ==
  IF OrderIndex(SIZE_ORDER, Upper(size)) # -1 THEN OrderIndex(SIZE_ORDER, Upper(size))
  ELSE IF ParseInt(Upper(size)) # NaN THEN ParseInt(Upper(size))
  ELSE 0

\* compareSizes(sizeA, sizeB): the difference of the places in SIZE_ORDER of two letter sizes,
\* else the difference of the two parseInt values, else 0
CompareSizes(sizeA, sizeB) ==
  LET FromNumbers(numA, numB) == IF numA # NaN /\ numB # NaN THEN numA - numB ELSE 0
      FromLetters(normA, normB, letterIndexA, letterIndexB) ==
        IF letterIndexA # -1 /\ letterIndexB # -1 THEN letterIndexA - letterIndexB
        ELSE FromNumbers(ParseInt(normA), ParseInt(normB))
      FromLabels(normA, normB) ==
        FromLetters(normA, normB, OrderIndex(SIZE_ORDER, normA), OrderIndex(SIZE_ORDER, normB))
  IN FromLabels(Upper(sizeA), Upper(sizeB))

(* ---------- lib/sizeCalculator.js ---------- *)

\* Scores are kept as integers, in units of 1/14400: every score the ease table can produce,
\* and every average of up to four of them, is a whole number of units.
Unit == 144 * 100

EASE_ALLOWANCES(garmentType) ==
  IF garmentType = "bottom"
  THEN << [key |-> "waist", min |-> 2, ideal |-> 4, max |-> 10],
          [key |-> "hip", min |-> 2, ideal |-> 6, max |-> 14],
          [key |-> "length", min |-> -4, ideal |-> 0, max |-> 4],
          [key |-> "thigh", min |-> 2, ideal |-> 6, max |-> 12] >>
  ELSE << [key |-> "chest", min |-> 4, ideal |-> 8, max |-> 16],
          [key |-> "shoulder", min |-> 0, ideal |-> 2, max |-> 6],
          [key |-> "sleeve", min |-> -2, ideal |-> 0, max |-> 4],
          [key |-> "length", min |-> -2, ideal |-> 2, max |-> 8] >>

MaxOf(a, b) == IF a >= b THEN a ELSE b

\* a variant whose tight score grows as the garment gets tighter
CalculateMeasurementFitSignSlip(garmentMeasure, bodyMeasure, ease) ==
  LET diff == garmentMeasure - bodyMeasure
  IN IF diff < ease.min
     THEN [score |-> MaxOf(0, Unit \div 2 + (ease.min - diff) * (Unit \div 10)), fit |-> "tight", diff |-> diff]
     ELSE IF diff <= ease.ideal
     THEN [score |-> 7 * (Unit \div 10) + ((diff - ease.min) * 3 * (Unit \div 10)) \div (ease.ideal - ease.min),
           fit |-> "right", diff |-> diff]
     ELSE IF diff <= ease.max
     THEN [score |-> Unit - ((diff - ease.ideal) * 2 * (Unit \div 10)) \div (ease.max - ease.ideal),
           fit |-> "loose", diff |-> diff]
     ELSE [score |-> MaxOf(3 * (Unit \div 10), 8 * (Unit \div 10) - (diff - ease.max) * (Unit \div 20)),
           fit |-> "oversized", diff |-> diff]

\* a variant whose oversized score is not held at 0.3
CalculateMeasurementFitNoFloor(garmentMeasure, bodyMeasure, ease) ==
  LET diff == garmentMeasure - bodyMeasure
  IN IF diff < ease.min
     THEN [score |-> MaxOf(0, Unit \div 2 - (ease.min - diff) * (Unit \div 10)), fit |-> "tight", diff |-> diff]
     ELSE IF diff <= ease.ideal
     THEN [score |-> 7 * (Unit \div 10) + ((diff - ease.min) * 3 * (Unit \div 10)) \div (ease.ideal - ease.min),
           fit |-> "right", diff |-> diff]
     ELSE IF diff <= ease.max
     THEN [score |-> Unit - ((diff - ease.ideal) * 2 * (Unit \div 10)) \div (ease.max - ease.ideal),
           fit |-> "loose", diff |-> diff]
     ELSE [score |-> MaxOf(0, 8 * (Unit \div 10) - (diff - ease.max) * (Unit \div 20)),
           fit |-> "oversized", diff |-> diff]

\* calculateMeasurementFit, for an ease with min < ideal < max (as every entry of the table)
CalculateMeasurementFit(garmentMeasure, bodyMeasure, ease) ==
  LET diff == garmentMeasure - bodyMeasure
  IN IF diff < ease.min
     THEN [score |-> MaxOf(0, Unit \div 2 - (ease.min - diff) * (Unit \div 10)), fit |-> "tight", diff |-> diff]
     ELSE IF diff >= ease.min /\ diff <= ease.ideal
     THEN [score |-> 7 * (Unit \div 10) + ((diff - ease.min) * 3 * (Unit \div 10)) \div (ease.ideal - ease.min),
           fit |-> "right", diff |-> diff]
     ELSE IF diff > ease.ideal /\ diff <= ease.max
     THEN [score |-> Unit - ((diff - ease.ideal) * 2 * (Unit \div 10)) \div (ease.max - ease.ideal),
           fit |-> "loose", diff |-> diff]
     ELSE [score |-> MaxOf(3 * (Unit \div 10), 8 * (Unit \div 10) - (diff - ease.max) * (Unit \div 20)),
           fit |-> "oversized", diff |-> diff]

\* an optional value: <<>> for null or undefined, <<v>> for v
GarmentValue(m, key) ==
  IF key \in DOMAIN m THEN <<m[key]>>
  ELSE IF key = "chest" /\ "bust" \in DOMAIN m THEN <<m["bust"]>>
  ELSE <<>>

UserValue(user, key) ==
  IF key \in DOMAIN user THEN <<user[key]>>
  ELSE IF key = "length" /\ "topLength" \in DOMAIN user THEN <<user["topLength"]>>
  ELSE IF key = "length" /\ "pantsLength" \in DOMAIN user THEN <<user["pantsLength"]>>
  ELSE <<>>

\* a variant that applies the ratio test and then the absolute threshold, each doubling
AdjustedGarmentTwice(key, garmentValue, userValue) ==
  LET Absolute(g) ==
        IF (g < 70 /\ key = "chest") \/ (g < 50 /\ key \in {"waist", "hip"}) THEN g * 2 ELSE g
  IN IF key \in {"waist", "hip", "chest"}
     THEN Absolute(IF 10 * garmentValue < 7 * userValue THEN garmentValue * 2 ELSE garmentValue)
     ELSE garmentValue

\* the flat-lay doubling; garmentValue / userValue < 0.7 for a positive userValue
AdjustedGarment(key, garmentValue, userValue) ==
  IF key \in {"waist", "hip", "chest"}
  THEN IF 10 * garmentValue < 7 * userValue THEN garmentValue * 2
       ELSE IF garmentValue < 70 /\ key = "chest" THEN garmentValue * 2
       ELSE IF garmentValue < 50 /\ key \in {"waist", "hip"} THEN garmentValue * 2
       ELSE garmentValue
  ELSE garmentValue

\* details[key] of the measurements both sides have, in the order of the ease table
FitDetails(sizeData, userMeasurements, garmentType) ==
  LET easeConfig == EASE_ALLOWANCES(garmentType)
      both == SelectSeq(easeConfig, LAMBDA e : GarmentValue(sizeData.m, e.key) # <<>>
                                              /\ UserValue(userMeasurements, e.key) # <<>>)
      detail(e) == LET userValue == UserValue(userMeasurements, e.key)[1]
                       adjusted == AdjustedGarment(e.key, GarmentValue(sizeData.m, e.key)[1], userValue)
                       fitResult == CalculateMeasurementFit(adjusted, userValue, e)
                   IN [key |-> e.key, garment |-> adjusted, body |-> userValue,
                       score |-> fitResult.score, fit |-> fitResult.fit, diff |-> fitResult.diff]
  IN MapSeq(both, detail)

FitNotes(details) ==
  MapSeq(SelectSeq(details, LAMBDA d : d.fit \in {"tight", "oversized"}),
         LAMBDA d : Capitalize(d.key) \o (IF d.fit = "tight" THEN " may be tight" ELSE " may be very loose"))

\* a variant that forgets to divide by the number of measurements
TotalScore(totalScore, measurementCount) == totalScore

\* a variant that divides by the four keys of the ease table, so that a missing measurement
\* counts as a score of 0
AverageOverEaseTable(totalScore, measurementCount) == totalScore \div 4

\* measurementCount > 0 ? totalScore / measurementCount : 0
AverageScore(totalScore, measurementCount) ==
  IF measurementCount > 0 THEN totalScore \div measurementCount ELSE 0

\* Math.round(avgScore * 100) / 100, in hundredths
RoundToHundredths(avgScore) == (2 * avgScore + Unit \div 100) \div (2 * (Unit \div 100))

CalculateSizeFit(sizeData, userMeasurements, garmentType) ==
  LET Fit(avgScore, isGarmentTooBig) ==
        IF 100 * avgScore >= 85 * Unit THEN "right"
        ELSE IF 10 * avgScore >= 7 * Unit THEN (IF isGarmentTooBig THEN "loose" ELSE "tight")
        ELSE IF 10 * avgScore >= 5 * Unit THEN (IF isGarmentTooBig THEN "oversized" ELSE "tight")
        ELSE (IF isGarmentTooBig THEN "too_big" ELSE "too_small")
      FromCounts(details, avgScore, garmentBiggerCount, garmentSmallerCount) ==
        [score |-> RoundToHundredths(avgScore),
         fit |-> Fit(avgScore, garmentBiggerCount >= garmentSmallerCount),
         details |-> details, notes |-> FitNotes(details)]
      FromDetails(details) ==
        FromCounts(details,
                   AverageScore(SumSeq(MapSeq(details, LAMBDA d : d.score)), Len(details)),
                   Len(SelectSeq(details, LAMBDA d : d.diff > 0)),
                   Len(SelectSeq(details, LAMBDA d : d.diff < 0)))
  IN FromDetails(FitDetails(sizeData, userMeasurements, garmentType))

\* results.find(pred): <<>> when nothing is found
Find(results, Pred(_)) == Take(SelectSeq(results, Pred), 1)

\* one step of getNextSizeUp, however many are asked for
SizesUpOneStep(size, steps) ==
  IF steps <= 0 THEN size
  ELSE LET Step(nextSize) == IF nextSize # NoSizeUp THEN nextSize ELSE size
       IN Step(GetNextSizeUp(size))

\* the size reached from size by baggyMargin.value steps of getNextSizeUp
RECURSIVE SizesUp(_, _)
SizesUp(size, steps) ==
  IF steps <= 0 THEN size
  ELSE LET Step(nextSize) == IF nextSize # NoSizeUp THEN nextSize ELSE size
       IN SizesUp(Step(GetNextSizeUp(size)), steps - 1)

\* the baggy fit for a margin counted in sizes
BaggyBySize(rows, results, rightFit, value) ==
  LET \* the next larger size of the chart, when the target size is not in results
      NextLarger(sortedBySizeOrder, rightSizeIndex) ==
        IF rightSizeIndex # 0 /\ rightSizeIndex + value <= Len(sortedBySizeOrder)
        THEN Find(results, LAMBDA r : r.size = sortedBySizeOrder[rightSizeIndex + value].size)
        ELSE <<>>
      FromSorted(sortedBySizeOrder) ==
        NextLarger(sortedBySizeOrder, IndexOf(MapSeq(sortedBySizeOrder, LAMBDA r : r.size), rightFit.size))
      FromDirect(direct) ==
        IF direct # <<>> THEN direct ELSE FromSorted(SortByKey(rows, LAMBDA r : CompareKey(r.size)))
      FromTarget(targetSize) == FromDirect(Find(results, LAMBDA r : Upper(r.size) = Upper(targetSize)))
  IN FromTarget(SizesUp(rightFit.size, value))

\* |garmentValue - targetMeasurement| times 100, for a margin in cm or in percent
TargetDistance(garmentValue, userValue, margin) ==
  LET target == IF margin.type = "cm" THEN 100 * (userValue + margin.value)
                ELSE userValue * (100 + margin.value)
      d == 100 * garmentValue - target
  IN IF d >= 0 THEN d ELSE -d

PrimaryValue(row, primaryKey) ==
  IF row.m[primaryKey] < 70 /\ primaryKey = "chest" THEN row.m[primaryKey] * 2
  ELSE IF row.m[primaryKey] < 50 /\ primaryKey = "waist" THEN row.m[primaryKey] * 2
  ELSE row.m[primaryKey]

\* the loop that keeps the first row whose primary measurement is nearest to the target
RECURSIVE BestMatch(_, _, _, _, _, _)
BestMatch(rows, primaryKey, userValue, margin, best, bestDiff) ==
  IF rows = <<>> THEN best
  ELSE LET row == Head(rows)
           diff == TargetDistance(PrimaryValue(row, primaryKey), userValue, margin)
       IN IF primaryKey \in DOMAIN row.m /\ (best = <<>> \/ diff < bestDiff)
          THEN BestMatch(Tail(rows), primaryKey, userValue, margin, <<row.size>>, diff)
          ELSE BestMatch(Tail(rows), primaryKey, userValue, margin, best, bestDiff)

\* the baggy fit for a margin in cm or percent; without the user's primary measurement the
\* target is NaN and no row matches
BaggyByMeasure(rows, results, userMeasurements, garmentType, margin) ==
  LET primaryKey == IF garmentType = "top" THEN "chest" ELSE "waist"
      bestMatch == IF primaryKey \in DOMAIN userMeasurements
                   THEN BestMatch(rows, primaryKey, userMeasurements[primaryKey], margin, <<>>, 0)
                   ELSE <<>>
  IN IF bestMatch # <<>> THEN Find(results, LAMBDA r : r.size = bestMatch[1]) ELSE <<>>

\* calculateRecommendations without the sort of the results
CalculateRecommendationsFirstRow(sizeChart, userMeasurements, garmentType, baggyMargin) ==
  LET rows == sizeChart.rows
      sizeOrder == MapSeq(rows, LAMBDA r : r.size)
      summary(r) == [size |-> r.size, confidence |-> r.score, notes |-> r.notes]
      Baggy(results, rightFit) ==
        IF rightFit = <<>> THEN <<>>
        ELSE IF baggyMargin.type = "size"
        THEN BaggyBySize(rows, results, rightFit[1], baggyMargin.value)
        ELSE IF baggyMargin.type \in {"cm", "percent"}
        THEN BaggyByMeasure(rows, results, userMeasurements, garmentType, baggyMargin)
        ELSE <<>>
      \* without a baggy fit the second best result is taken
      FromBaggy(results, rightFit, found) ==
        [rightFit |-> MapSeq(rightFit, summary),
         baggyFit |-> MapSeq(IF found = <<>> /\ Len(results) > 1 THEN <<results[2]>> ELSE found, summary),
         allSizes |-> MapSeq(results, LAMBDA r : [size |-> r.size, fit |-> r.fit, score |-> r.score])]
      FromRight(results, rightFit) == FromBaggy(results, rightFit, Baggy(results, rightFit))
      FromResults(results) == FromRight(results, Take(results, 1))
      \* the results left in chart order
      FromFits(fits) ==
        FromResults(fits)
  IN FromFits(MapSeq(rows, LAMBDA r : [size |-> r.size] @@ CalculateSizeFit(r, userMeasurements, garmentType)))

CalculateRecommendations(sizeChart, userMeasurements, garmentType, baggyMargin) ==
  LET rows == sizeChart.rows
      sizeOrder == MapSeq(rows, LAMBDA r : r.size)
      summary(r) == [size |-> r.size, confidence |-> r.score, notes |-> r.notes]
      Baggy(results, rightFit) ==
        IF rightFit = <<>> THEN <<>>
        ELSE IF baggyMargin.type = "size"
        THEN BaggyBySize(rows, results, rightFit[1], baggyMargin.value)
        ELSE IF baggyMargin.type \in {"cm", "percent"}
        THEN BaggyByMeasure(rows, results, userMeasurements, garmentType, baggyMargin)
        ELSE <<>>
      \* without a baggy fit the second best result is taken
      FromBaggy(results, rightFit, found) ==
        [rightFit |-> MapSeq(rightFit, summary),
         baggyFit |-> MapSeq(IF found = <<>> /\ Len(results) > 1 THEN <<results[2]>> ELSE found, summary),
         allSizes |-> MapSeq(results, LAMBDA r : [size |-> r.size, fit |-> r.fit, score |-> r.score])]
      FromRight(results, rightFit) == FromBaggy(results, rightFit, Baggy(results, rightFit))
      FromResults(results) == FromRight(results, Take(results, 1))
      \* by score, highest first; equal scores by position in the chart, last first
      FromFits(fits) ==
        FromResults(SortByKey(fits, LAMBDA r : 0 - (r.score * (Len(rows) + 1) + IndexOf(sizeOrder, r.size))))
  IN FromFits(MapSeq(rows, LAMBDA r : [size |-> r.size] @@ CalculateSizeFit(r, userMeasurements, garmentType)))

(* ---------- containsSizeGuide and the shared regular expressions ---------- *)

\* the tokens of a text in reading order; a position in the text is a number of tokens read
GuideTokens(rawText) == Flatten(rawText)

KeywordWords == {"size", "chest", "length", "shoulder", "sleeve", "waist", "hip"}

\* the Chinese alternatives of measurementKeywords, in pinyin
KeywordTerms == {"chima", "chicun", "yichang", "xiongwei", "jiankuan", "xiuchang", "yaowei", "tunwei", "kuchang"}

UnitWords == {"cm", "inch", "in"}

\* the Chinese alternatives of measurementWithUnit, in pinyin
UnitTerms == {"limi", "gongfen", "yingcun"}

\* each matcher gives the position after the match that starts at token i, or 0 without a match
MatchKeyword(stream, i) ==
  IF \/ stream[i].k = "w" /\ Lower(stream[i].s) \in KeywordWords
     \/ stream[i].k = "z" /\ stream[i].s \in KeywordTerms
  THEN i ELSE 0

\* digits, optional white space, a unit
MatchWithUnit(stream, i) ==
  IF /\ i < Len(stream)
     /\ \/ stream[i].k = "n"
        \/ stream[i].k = "g" /\ stream[i].s \in {"$d", "Sd"}
     /\ \/ stream[i + 1].k = "w" /\ Lower(stream[i + 1].s) \in UnitWords
        \/ stream[i + 1].k = "z" /\ stream[i + 1].s \in UnitTerms
  THEN i + 1 ELSE 0

\* a number of two or three digits standing alone
MatchTableNumber(stream, i) ==
  IF stream[i].k = "n" /\ stream[i].n >= 10 /\ stream[i].n <= 999 THEN i ELSE 0

\* a letter size, or a number of one or two digits standing alone ('$' is no word character)
MatchSizeLabel(stream, i) ==
  IF \/ stream[i].k = "w" /\ Upper(stream[i].s) \in LetterSizes
     \/ stream[i].k = "n" /\ stream[i].n <= 99
     \/ stream[i].k = "g" /\ stream[i].s \in {"$d", "d$"}
  THEN i ELSE 0

\* RegExp.prototype.test of a global expression: the search starts at lastIndex; a match leaves
\* lastIndex after it, no match leaves lastIndex 0
RegexTest(stream, MatchEnd(_, _), from) ==
  LET FromHits(hits) ==
        IF hits = {} THEN [found |-> FALSE, lastIndex |-> 0]
        ELSE [found |-> TRUE, lastIndex |-> MatchEnd(stream, CHOOSE i \in hits : \A j \in hits : i <= j)]
  IN FromHits({i \in (from + 1)..Len(stream) : MatchEnd(stream, i) # 0})

\* SIZE_PATTERNS.x.lastIndex = 0 without the assignment
KeepIndex(indices, name) == indices

\* SIZE_PATTERNS.x.lastIndex = 0
ResetIndex(indices, name) == [indices EXCEPT ![name] = 0]

\* hasMeasurements with the unit pattern alone
HasMeasurementsWithUnitOnly(withUnit, tableNumber) == withUnit

\* hasMeasurements
HasMeasurements(withUnit, tableNumber) == withUnit \/ tableNumber

\* containsSizeGuide(text) with the lastIndex values it finds: its result and the values it leaves
ContainsSizeGuide(rawText, indices) ==
  LET Tested(idx, name, r) == [idx EXCEPT ![name] = r.lastIndex]
      Stream(stream) ==
        LET Labels(hasKeywords, hasMeasurements, idx3, r4) ==
              [result |-> hasKeywords /\ (hasMeasurements \/ r4.found),
               lastIndex |-> ResetIndex(Tested(idx3, "sizeLabels", r4), "sizeLabels")]
            AfterNumbers(hasKeywords, hasMeasurements, idx3) ==
              Labels(hasKeywords, hasMeasurements, idx3, RegexTest(stream, MatchSizeLabel, idx3["sizeLabels"]))
            \* the second operand of || is run only when the first is false
            Numbers(hasKeywords, idx2, r2, r3) ==
              AfterNumbers(hasKeywords, HasMeasurements(r2.found, r3.found),
                           ResetIndex(ResetIndex(Tested(idx2, "tableNumbers", r3), "measurementWithUnit"),
                                      "tableNumbers"))
            Units(hasKeywords, idx2, r2) ==
              Numbers(hasKeywords, idx2, r2,
                      IF r2.found THEN [found |-> FALSE, lastIndex |-> idx2["tableNumbers"]]
                      ELSE RegexTest(stream, MatchTableNumber, idx2["tableNumbers"]))
            AfterKeywords(hasKeywords, idx1, r2) == Units(hasKeywords, Tested(idx1, "measurementWithUnit", r2), r2)
            Keywords(r1, idx1) ==
              AfterKeywords(r1.found, idx1, RegexTest(stream, MatchWithUnit, idx1["measurementWithUnit"]))
            First(r1) == Keywords(r1, ResetIndex(Tested(indices, "measurementKeywords", r1), "measurementKeywords"))
        IN First(RegexTest(stream, MatchKeyword, indices["measurementKeywords"]))
  IN IF rawText = Null \/ rawText = <<>> THEN [result |-> FALSE, lastIndex |-> indices]
     ELSE Stream(GuideTokens(rawText))

(* ---------- detectGarmentType and the OCR endpoint (api/ocr.js) ---------- *)

bottomIndicators == {"waist", "hip", "inseam", "thigh", "pants", "leg"}

topIndicators == {"chest", "shoulder", "sleeve", "collar"}

\* k.includes(i) for a lower-cased key of a chart: the indicator itself, the indicator with the
\* counter of a repeated measurement, or pantslength and legopening for pants and leg
KeyIncludes(k, i) ==
  \/ k = i
  \/ \E counter \in 2..9 : k = i \o ToString(counter)
  \/ i = "pants" /\ k = "pantslength"
  \/ i = "leg" /\ k = "legopening"

\* detectGarmentType(sizeChart): the keys are the headers and the keys of the rows, size included
DetectGarmentType(sizeChart) ==
  LET Scored(allKeys) ==
        IF Cardinality({i \in bottomIndicators : \E k \in allKeys : KeyIncludes(k, i)})
             > Cardinality({i \in topIndicators : \E k \in allKeys : KeyIncludes(k, i)})
        THEN "bottom" ELSE "top"
  IN Scored({Lower(sizeChart.headers[i]) : i \in 1..Len(sizeChart.headers)}
              \cup UNION {{"size"} \cup {Lower(k) : k \in DOMAIN sizeChart.rows[i].m} : i \in 1..Len(sizeChart.rows)})

\* the body of the 200 response for the text OCR returned: isSizeGuide, and structured with the
\* garment type detected from the parsed chart
OcrResponse(isSizeGuide, structured) ==
  [called |-> TRUE, success |-> TRUE, isSizeGuide |-> isSizeGuide,
   structured |-> [headers |-> structured.headers, rows |-> structured.rows,
                   tables |-> structured.tables, garmentType |-> DetectGarmentType(structured)]]

(* ---------- the parser as a state machine ---------- *)

Z(s) == [k |-> "z", s |-> s, n |-> 0]

\* the lines OCR texts are made of
LinePool ==
  { <<W("Size"), W("s"), W("m")>>,
    <<W("Size"), N(46), N(48)>>,
    <<W("Size"), N(1), N(2)>>,
    <<W("Chest"), N(100), N(104)>>,
    <<W("Sleeve"), N(9), N(60)>>,
    <<W("S"), N(100), N(44)>>,
    <<W("M"), N(104), N(45)>>,
    <<W("Size"), W("Chest"), W("Shoulder")>>,
    <<W("Size"), Colon, N(46), N(48)>>,
    <<W("Chest"), Colon, N(100), N(104)>>,
    <<W("Shoulder"), W("S"), N(50), W("M"), N(51)>>,
    <<Z("kuchang"), N(98), G("$d", 3)>> }

\* the lines of texts that hold several tables
TablePool ==
  { <<W("Size"), W("S"), W("M"), W("L"), W("XL")>>,
    <<W("Chest"), N(100), N(104), N(108), N(112)>>,
    <<W("Length"), N(65), N(67), N(69), N(71)>>,
    <<W("Waist"), N(74), N(78), N(82), N(86)>>,
    <<W("Pants"), W("Length"), N(98), N(100), N(102), N(104)>> }

MaxLines == 3

MaxTableLines == 5

\* the global regular expressions of SIZE_PATTERNS that containsSizeGuide runs
PatternNames == {"measurementKeywords", "measurementWithUnit", "tableNumbers", "sizeLabels"}

NoChart == [path |-> "none"]

NoCall == [called |-> FALSE]

Init ==
  /\ text \in {Null, <<>>}
  /\ pc = "input"
  /\ chart = NoChart
  /\ measure = NoCall
  /\ recs = NoCall
  /\ fit = NoCall
  /\ order = NoCall
  /\ guide = NoCall
  /\ lastIndex = [r \in PatternNames |-> 0]
  /\ response = NoCall
  /\ repeat = NoCall

\* OCR delivers one more line of text
AddLine ==
  /\ pc = "input" /\ text # Null /\ Len(text) < MaxLines
  /\ \E line \in LinePool : text' = Append(text, line)
  /\ UNCHANGED <<pc, chart, measure, recs, fit, order, guide, lastIndex, response, repeat>>

AddTableLine ==
  /\ pc = "input" /\ text # Null /\ Len(text) < MaxTableLines
  /\ \E line \in TablePool : text' = Append(text, line)
  /\ UNCHANGED <<pc, chart, measure, recs, fit, order, guide, lastIndex, response, repeat>>

\* parseSizeChart(rawText)
Parse ==
  /\ pc = "input"
  /\ chart' = ParseSizeChart(text)
  /\ pc' = "done"
  /\ UNCHANGED <<text, measure, recs, fit, order, guide, lastIndex, response, repeat>>

Next == AddLine \/ Parse

Spec == Init /\ [][Next]_vars

NextTables == AddTableLine \/ Parse

SpecTables == Init /\ [][NextTables]_vars

\* lines with characters that OCR confuses with 5
GarbledPool ==
  { <<W("Size"), W("S"), W("M"), W("L"), W("XL")>>,
    <<W("Length"), G("d$", 6), N(67), N(69), N(71)>>,
    <<W("Chest"), N(100), N(104), N(108), G("Sd", 2)>>,
    <<Z("jiankuan"), N(44), G("dS", 4), N(46), N(47)>>,
    <<W("S"), G("$d", 3), N(44)>> }

MaxGarbledLines == 3

AddGarbledLine ==
  /\ pc = "input" /\ text # Null /\ Len(text) < MaxGarbledLines
  /\ \E line \in GarbledPool : text' = Append(text, line)
  /\ UNCHANGED <<pc, chart, measure, recs, fit, order, guide, lastIndex, response, repeat>>

NextGarbled == AddGarbledLine \/ Parse

SpecGarbled == Init /\ [][NextGarbled]_vars

\* Size lines with two sizes, with one size and with one size twice, and measurement lines
HeaderPool ==
  { <<W("Size"), W("S"), W("M")>>,
    <<W("Size"), W("M")>>,
    <<W("Size"), W("S"), W("S")>>,
    <<W("Chest"), N(100), N(104)>>,
    <<W("Waist"), N(74), N(78)>> }

MaxHeaderLines == 4

AddHeaderLine ==
  /\ pc = "input" /\ text # Null /\ Len(text) < MaxHeaderLines
  /\ \E line \in HeaderPool : text' = Append(text, line)
  /\ UNCHANGED <<pc, chart, measure, recs, fit, order, guide, lastIndex, response, repeat>>

NextHeaders == AddHeaderLine \/ Parse

SpecHeaders == Init /\ [][NextHeaders]_vars

\* the lines of images with a table for a top and a table for a bottom
EndpointPool ==
  { <<W("Size"), W("S"), W("M")>>,
    <<W("Chest"), N(100), N(104)>>,
    <<W("Waist"), N(74), N(78)>>,
    <<W("Hip"), N(96), N(100)>> }

MaxEndpointLines == 5

AddEndpointLine ==
  /\ pc = "input" /\ text # Null /\ Len(text) < MaxEndpointLines
  /\ \E line \in EndpointPool : text' = Append(text, line)
  /\ UNCHANGED <<pc, chart, measure, recs, fit, order, guide, lastIndex, response, repeat>>

\* POST /api/ocr once OCR has returned the text: containsSizeGuide, parseSizeChart and
\* detectGarmentType on rawText = ParsedText || ''
Endpoint ==
  /\ pc = "input"
  /\ pc' = "done"
  /\ LET Answered(rawText, isGuide, structured) ==
           /\ guide' = [called |-> TRUE, text |-> rawText, result |-> isGuide.result]
           /\ lastIndex' = isGuide.lastIndex
           /\ chart' = structured
           /\ response' = OcrResponse(isGuide.result, structured)
         FromText(rawText) == Answered(rawText, ContainsSizeGuide(rawText, lastIndex), ParseSizeChart(rawText))
     IN FromText(IF text = Null THEN <<>> ELSE text)
  /\ UNCHANGED <<text, measure, recs, fit, order, repeat>>

NextEndpoint == AddEndpointLine \/ Endpoint

SpecEndpoint == Init /\ [][NextEndpoint]_vars

(* ---------- properties of parseSizeChart ---------- *)

Parsed == pc = "done"

\* the text the strategies see
Translated == TranslateChinese(FixOCRErrors(text))

\* multi-table detection accepted no segment and no strategy result was admitted
NothingAccepted ==
  /\ text # Null /\ text # <<>>
  /\ ParseMultipleTables(Translated) = <<>>
  /\ chart.results = <<>>

IsEmptyChart == chart.headers = <<>> /\ chart.rows = <<>> /\ chart.tables = <<>>

\* C1: parseSizeChart returns the empty chart (headers, rows and tables all empty) for '' and
\* for null, and for every text in which multi-table detection accepts no segment and no
\* single-table strategy result is admitted.
C1_EmptyChart ==
  Parsed /\ (text = Null \/ text = <<>> \/ NothingAccepted) => IsEmptyChart

C1_Witness == Parsed /\ NothingAccepted /\ Len(text) >= 2 /\ IsEmptyChart

\* a clean Size header: the word Size, then k >= 2 size tokens of one kind
SizeTokens(line) == Tail(line)

CleanHeader(line) ==
  /\ Len(line) >= 3
  /\ line[1] = W("Size")
  /\ \/ \A i \in 2..Len(line) : IsLetterSize(line[i])
     \/ \A i \in 2..Len(line) : IsEUSize(line[i])
     \/ \A i \in 2..Len(line) : IsSingleDigit(line[i])

\* an aligned measurement line: a measurement keyword, then exactly k numbers
AlignedLine(line, k) ==
  \E w \in 1..2 :
    /\ Len(line) = w + k
    /\ \A i \in 1..w : line[i].k = "w"
    /\ \A i \in (w + 1)..Len(line) : line[i].k = "n"
    /\ \E e \in 1..Len(MultiTableKeywords) : MultiTableKeywords[e].kw = [i \in 1..w |-> Lower(line[i].s)]

ValuesOfLine(line) == MapSeq(SelectSeq(line, LAMBDA t : t.k = "n"), LAMBDA t : t.n)

CleanAligned ==
  /\ text # Null /\ Len(text) >= 2
  /\ CleanHeader(text[1])
  /\ \A j \in 2..Len(text) : AlignedLine(text[j], Len(text[1]) - 1)

ValuesInRange ==
  \A j \in 2..Len(text) : \A i \in 1..Len(ValuesOfLine(text[j])) :
    ValuesOfLine(text[j])[i] >= 10 /\ ValuesOfLine(text[j])[i] <= 250

ExpectedSize(t) == IF t.k = "n" THEN ToString(t.n) ELSE Upper(t.s)

\* a row for every size token of the header, in header order, holding under the j-th header
\* the value at the token's position in the j-th measurement line
RowsFollowHeader ==
  /\ Len(chart.rows) = Len(SizeTokens(text[1]))
  /\ Len(chart.headers) = Len(text) - 1
  /\ \A i \in 1..Len(chart.rows) :
       /\ chart.rows[i].size = ExpectedSize(SizeTokens(text[1])[i])
       /\ DOMAIN chart.rows[i].m = {chart.headers[j] : j \in 1..Len(chart.headers)}
       /\ \A j \in 1..Len(chart.headers) :
            chart.rows[i].m[chart.headers[j]] = ValuesOfLine(text[j + 1])[i]

\* C2, as stated: for a text made of a clean Size header with k >= 2 size tokens and aligned
\* measurement-keyword lines of k numeric values each, parseSizeChart returns a row for every
\* size token, in header order, with the values at the token's position and the size label
\* in upper case.
C2_RowPerSizeToken == Parsed /\ CleanAligned => RowsFollowHeader

\* C2, amended: the same, for measurement lines whose values all lie between 10 and 250.
C2_RowPerSizeTokenInRange == Parsed /\ CleanAligned /\ ValuesInRange => RowsFollowHeader

C2_Witness ==
  /\ Parsed /\ CleanAligned /\ ValuesInRange /\ RowsFollowHeader
  /\ Len(text) = 3 /\ IsWord(text[1][2], "s") /\ chart.rows[1].size = "S"

ScoreOf(result) == Len(result.rows) * (1 + Cardinality(DOMAIN result.rows[1].m))

\* C4: in the single-table fallback the returned chart is the admitted result with the highest
\* score rowCount x keys-of-first-row, and among admitted results sharing the highest score the
\* earliest in the priority order.
C4_BestAdmitted ==
  Parsed /\ chart.path = "fallback" /\ chart.results # <<>> =>
    LET S == chart.results
    IN \E i \in 1..Len(S) :
         /\ \A j \in 1..Len(S) : ScoreOf(S[j].result) <= ScoreOf(S[i].result)
         /\ \A j \in 1..(i - 1) : ScoreOf(S[j].result) < ScoreOf(S[i].result)
         /\ chart.strategy = S[i].name
         /\ chart.rows = S[i].result.rows
         /\ chart.headers = S[i].result.headers

\* two admitted results with different contents share the highest score
C4_Witness ==
  /\ Parsed /\ chart.path = "fallback"
  /\ LET S == chart.results
     IN \E i, j \in 1..Len(S) :
          /\ i < j
          /\ ScoreOf(S[i].result) = ScoreOf(S[j].result)
          /\ \A h \in 1..Len(S) : ScoreOf(S[h].result) <= ScoreOf(S[i].result)
          /\ S[i].result # S[j].result
          /\ chart.strategy = S[i].name

ChartRows == chart.rows \o Flatten(MapSeq(chart.tables, LAMBDA t : t.rows))

\* C5: every row of every returned chart, in rows and in each table, has a non-empty size
\* label and at least one measurement key besides size.
C5_RowsHaveMeasurements ==
  Parsed => \A i \in 1..Len(ChartRows) : ChartRows[i].size # "" /\ DOMAIN ChartRows[i].m # {}

TopLines == { <<W("Chest"), N(100), N(104), N(108), N(112)>>, <<W("Length"), N(65), N(67), N(69), N(71)>> }

BottomLines ==
  { <<W("Waist"), N(74), N(78), N(82), N(86)>>,
    <<W("Pants"), W("Length"), N(98), N(100), N(102), N(104)>> }

\* a Size S M L XL header, top measurement lines, a second such header, bottom measurement lines
TwoSegments ==
  /\ text # Null /\ Len(text) >= 4
  /\ \E h \in 3..(Len(text) - 1) :
       /\ text[1] = <<W("Size"), W("S"), W("M"), W("L"), W("XL")>> /\ text[h] = text[1]
       /\ \A j \in 2..(h - 1) : text[j] \in TopLines
       /\ \A j \in (h + 1)..Len(text) : text[j] \in BottomLines

\* C6: a two-segment input, top measurements under the first Size header and bottom
\* measurements under the second, yields at least two tables, the first of garment type top
\* and the second of garment type bottom.
C6_TopThenBottom ==
  Parsed /\ TwoSegments =>
    /\ Len(chart.tables) >= 2
    /\ chart.tables[1].garmentType = "top"
    /\ chart.tables[2].garmentType = "bottom"

\* C7: every element of tables carries a garmentType that is top or bottom, on the multi-table
\* path and on the single-table fallback path alike.
C7_TablesHaveGarmentType ==
  Parsed => \A i \in 1..Len(chart.tables) :
    "garmentType" \in DOMAIN chart.tables[i] /\ chart.tables[i].garmentType \in {"top", "bottom"}

(* ---------- the fit scorer as a state machine ---------- *)

GarmentLow == 80

GarmentHigh == 125

BodyValues == {90, 100}

AllEases == {EASE_ALLOWANCES(g)[i] : g \in {"top", "bottom"}, i \in 1..4}

\* calculateMeasurementFit(garmentMeasure, bodyMeasure, ease)
MeasureFit ==
  /\ pc = "input"
  /\ pc' = "done"
  /\ \E g \in GarmentLow..GarmentHigh, b \in BodyValues, e \in AllEases :
       measure' = [called |-> TRUE, garment |-> g, body |-> b, ease |-> e,
                   result |-> CalculateMeasurementFit(g, b, e)]
  /\ UNCHANGED <<text, chart, recs, fit, order, guide, lastIndex, response, repeat>>

\* the rows of the size charts handed to the scorer: a chart in letter sizes or in EU sizes
FitRowPools ==
  { { Row("S", [chest |-> 100, length |-> 65]),
      Row("M", [chest |-> 104, length |-> 67]),
      Row("L", [chest |-> 54, shoulder |-> 47]),
      Row("XL", [bust |-> 112, waist |-> 92]) },
    { Row("46", [waist |-> 78, hip |-> 100]),
      Row("48", [waist |-> 41, thigh |-> 58]),
      Row("50", [waist |-> 86, length |-> 100]) } }

MaxRows == 2

RECURSIVE SeqsUpTo(_, _)
SeqsUpTo(S, n) ==
  IF n = 0 THEN {<<>>}
  ELSE SeqsUpTo(S, n - 1) \cup {Append(q, x) : q \in {r \in SeqsUpTo(S, n - 1) : Len(r) = n - 1}, x \in S}

UserPool ==
  { [chest |-> 96, topLength |-> 66],
    [chest |-> 112, shoulder |-> 47],
    [waist |-> 76, hip |-> 96, thigh |-> 55],
    [waist |-> 90, chest |-> 100, pantsLength |-> 98] }

MaxMargin == 1

Margins == {[type |-> t, value |-> v] : t \in {"size", "cm", "percent"}, v \in 0..MaxMargin}

\* calculateRecommendations(sizeChart, userMeasurements, garmentType, baggyMargin)
Recommend ==
  /\ pc = "input"
  /\ pc' = "done"
  /\ \E pool \in FitRowPools, user \in UserPool, g \in {"top", "bottom"}, margin \in Margins :
     \E rows \in SeqsUpTo(pool, MaxRows) :
       recs' = [called |-> TRUE, rows |-> rows, user |-> user, garmentType |-> g, margin |-> margin,
                result |-> CalculateRecommendations([rows |-> rows], user, g, margin)]
  /\ UNCHANGED <<text, chart, measure, fit, order, guide, lastIndex, response, repeat>>

NextFit == MeasureFit \/ Recommend

SpecFit == Init /\ [][NextFit]_vars

\* the measurements of one size handed to calculateSizeFit: one measurement that may be a
\* flat-lay value, and one more
FlatLayKeys == {"chest", "bust", "waist", "hip"}

FlatLayValues == {34, 49, 50, 52, 68, 69, 70, 104}

OtherKeys == {"length", "shoulder", "sleeve", "thigh"}

OtherValues == {44, 61, 70}

SizeFitUsers ==
  { [chest |-> 98, waist |-> 98, hip |-> 101, length |-> 70, shoulder |-> 45],
    [chest |-> 100, waist |-> 70, hip |-> 71, topLength |-> 66, thigh |-> 55, sleeve |-> 62],
    [chest |-> 101, pantsLength |-> 98],
    [waist |-> 100, hip |-> 96, thigh |-> 60],
    [waist |-> 66, topLength |-> 66, pantsLength |-> 98] }

\* calculateSizeFit(sizeData, userMeasurements, garmentType)
SizeFit ==
  /\ pc = "input"
  /\ pc' = "done"
  /\ \E k1 \in FlatLayKeys, v1 \in FlatLayValues, k2 \in OtherKeys, v2 \in OtherValues,
        user \in SizeFitUsers, g \in {"top", "bottom"} :
       fit' = [called |-> TRUE, sizeData |-> Row("M", (k1 :> v1) @@ (k2 :> v2)), user |-> user,
               garmentType |-> g, result |-> CalculateSizeFit(Row("M", (k1 :> v1) @@ (k2 :> v2)), user, g)]
  /\ UNCHANGED <<text, chart, measure, recs, order, guide, lastIndex, response, repeat>>

NextSizeFit == SizeFit

SpecSizeFit == Init /\ [][NextSizeFit]_vars

\* whole size charts: the top and the bottom chart of the calculator's tests, a chart without
\* rows, and charts with a missing size, with flat-lay values, in EU sizes, and with sizes
\* measured on different keys
topSizeChart ==
  << Row("S", [chest |-> 100, shoulder |-> 44, length |-> 68, sleeve |-> 60]),
     Row("M", [chest |-> 104, shoulder |-> 46, length |-> 70, sleeve |-> 62]),
     Row("L", [chest |-> 108, shoulder |-> 48, length |-> 72, sleeve |-> 64]),
     Row("XL", [chest |-> 112, shoulder |-> 50, length |-> 74, sleeve |-> 66]) >>

bottomSizeChart ==
  << Row("S", [waist |-> 74, hip |-> 96, thigh |-> 54, length |-> 98]),
     Row("M", [waist |-> 78, hip |-> 100, thigh |-> 56, length |-> 100]),
     Row("L", [waist |-> 82, hip |-> 104, thigh |-> 58, length |-> 102]),
     Row("XL", [waist |-> 86, hip |-> 108, thigh |-> 60, length |-> 104]) >>

ChartPool ==
  { topSizeChart, bottomSizeChart, <<>>,
    << Row("S", [chest |-> 100]), Row("M", [chest |-> 104]), Row("L", [chest |-> 108]), Row("XL", [chest |-> 112]) >>,
    << Row("S", [chest |-> 100]), Row("M", [chest |-> 104]), Row("XL", [chest |-> 112]) >>,
    << Row("M", [chest |-> 70]), Row("L", [chest |-> 130]) >>,
    << Row("46", [waist |-> 78]), Row("48", [waist |-> 82]), Row("52", [waist |-> 90]) >>,
    << Row("S", [waist |-> 81, hip |-> 103]), Row("M", [thigh |-> 62]) >> }

ChartUsers ==
  { [chest |-> 60], [chest |-> 80], [chest |-> 96], [chest |-> 98], [chest |-> 102], [chest |-> 120], [chest |-> 139],
    [chest |-> 98, shoulder |-> 45, topLength |-> 70, sleeve |-> 62],
    [chest |-> 103, shoulder |-> 44, topLength |-> 66],
    [waist |-> 80, hip |-> 98, thigh |-> 56, inseam |-> 78],
    [waist |-> 76, hip |-> 96, thigh |-> 55] }

ChartMargins ==
  {[type |-> "size", value |-> v] : v \in 0..2}
    \cup {[type |-> "cm", value |-> v] : v \in {1, 5}}
    \cup {[type |-> "percent", value |-> v] : v \in {10}}

\* calculateRecommendations on a whole chart
RecommendChart ==
  /\ pc = "input"
  /\ pc' = "done"
  /\ \E rows \in ChartPool, user \in ChartUsers, g \in {"top", "bottom"}, margin \in ChartMargins :
       recs' = [called |-> TRUE, rows |-> rows, user |-> user, garmentType |-> g, margin |-> margin,
                result |-> CalculateRecommendations([rows |-> rows], user, g, margin)]
  /\ UNCHANGED <<text, chart, measure, fit, order, guide, lastIndex, response, repeat>>

NextCharts == RecommendChart

SpecCharts == Init /\ [][NextCharts]_vars

(* ---------- the size order as a state machine ---------- *)

\* the labels of a chart: the letter scale, the small integers and the EU sizes, as written in
\* the chart (two of them in lower case)
SmallIntegerSizes == {ToString(n) : n \in 1..9}

EUSizes == {NUMERIC_SIZE_ORDER[i] : i \in 1..Len(NUMERIC_SIZE_ORDER)}

SizeLabels == LetterSizes \cup {"m", "xl"} \cup SmallIntegerSizes \cup EUSizes

\* compareSizes on two labels
Compare ==
  /\ pc = "input"
  /\ pc' = "done"
  /\ \E a \in SizeLabels, b \in SizeLabels :
       order' = [called |-> TRUE, op |-> "compareSizes", a |-> a, b |-> b, result |-> CompareSizes(a, b)]
  /\ UNCHANGED <<text, chart, measure, recs, fit, guide, lastIndex, response, repeat>>

\* getNextSizeUp on a label
NextUp ==
  /\ pc = "input"
  /\ pc' = "done"
  /\ \E a \in SizeLabels :
       order' = [called |-> TRUE, op |-> "getNextSizeUp", a |-> a, result |-> GetNextSizeUp(a)]
  /\ UNCHANGED <<text, chart, measure, recs, fit, guide, lastIndex, response, repeat>>

NextSizes == Compare \/ NextUp

SpecSizes == Init /\ [][NextSizes]_vars

(* ---------- calls in sequence ---------- *)

\* the lines of the texts containsSizeGuide is asked about
GuidePool ==
  { <<W("Size"), W("S"), W("M")>>,
    <<W("Chest"), N(100), N(104)>>,
    <<W("Chest"), N(1000)>>,
    <<W("Hello"), W("world")>>,
    <<N(100), W("cm")>>,
    <<N(7)>>,
    <<Z("xiuchang"), N(5), Z("limi")>>,
    <<W("Width"), G("Sd", 3), W("cm")>>,
    <<Z("kuchang"), N(1000), G("$d", 3)>> }

MaxGuideLines == 2

\* OCR delivers one more line of the text
AddGuideLine ==
  /\ text # Null /\ Len(text) < MaxGuideLines
  /\ pc = "input"
  /\ \E line \in GuidePool : text' = Append(text, line)
  /\ UNCHANGED <<pc, chart, measure, recs, fit, order, guide, lastIndex, response, repeat>>

\* the next image: no text, or an empty text
NewText ==
  /\ pc = "input"
  /\ text' \in {Null, <<>>}
  /\ UNCHANGED <<pc, chart, measure, recs, fit, order, guide, lastIndex, response, repeat>>

\* containsSizeGuide(text), on the lastIndex values the earlier calls left
Guide ==
  /\ pc = "input"
  /\ LET Called(r) ==
           /\ guide' = [called |-> TRUE, text |-> text, result |-> r.result]
           /\ lastIndex' = r.lastIndex
     IN Called(ContainsSizeGuide(text, lastIndex))
  /\ UNCHANGED <<text, pc, chart, measure, recs, fit, order, response, repeat>>

NextGuide == AddGuideLine \/ NewText \/ Guide

SpecGuide == Init /\ [][NextGuide]_vars

\* sizeChart.rows after a call that sorted the rows themselves by size order
RowsSortedInPlace(rows) == SortByKey(rows, LAMBDA r : CompareKey(r.size))

\* sizeChart.rows after calculateRecommendations: the rows are read, and the sort by size order
\* works on a copy, [...sizeChart.rows]
RowsAfterCall(rows) == rows

RepeatCharts ==
  { topSizeChart, <<>>,
    << Row("L", [chest |-> 108]), Row("S", [chest |-> 100]), Row("M", [chest |-> 104]) >>,
    << Row("XL", [chest |-> 112]), Row("M", [chest |-> 104]), Row("S", [chest |-> 100]) >> }

RepeatUsers == { [chest |-> 80], [chest |-> 98], [chest |-> 120] }

RepeatMargins == { [type |-> "size", value |-> 1], [type |-> "size", value |-> 2], [type |-> "cm", value |-> 5] }

\* calculateRecommendations called twice on the same sizeChart and userMeasurements objects;
\* it reads neither the text nor SIZE_PATTERNS
RecommendTwice ==
  /\ pc = "input" /\ text = Null
  /\ pc' = "done"
  /\ \E rows \in RepeatCharts, user \in RepeatUsers, margin \in RepeatMargins :
       /\ recs' = [called |-> TRUE, rows |-> rows, user |-> user, garmentType |-> "top", margin |-> margin,
                   result |-> CalculateRecommendations([rows |-> rows], user, "top", margin)]
       /\ repeat' = [called |-> TRUE, rows |-> RowsAfterCall(rows), user |-> user,
                     result |-> CalculateRecommendations([rows |-> RowsAfterCall(rows)], user, "top", margin)]
  /\ UNCHANGED <<text, chart, measure, fit, order, guide, lastIndex, response>>

NextCalls == AddGuideLine \/ NewText \/ Guide \/ RecommendTwice

SpecCalls == Init /\ [][NextCalls]_vars

(* ---------- properties of the fit scorer ---------- *)

\* C8: with diff = garment - body, calculateMeasurementFit returns tight with score
\* max(0, 0.5 - (min - diff) * 0.1) below min, right with the score rising linearly from 0.7 at
\* min to 1.0 at ideal, loose with the score falling linearly from 1.0 at ideal to 0.8 at max,
\* and oversized with score max(0.3, 0.8 - (diff - max) * 0.05) above max.
C8_PiecewiseScore ==
  measure.called =>
    LET e == measure.ease
        diff == measure.garment - measure.body
        r == measure.result
    IN /\ r.diff = diff
       /\ diff < e.min =>
            r.fit = "tight" /\ 10 * r.score = MaxOf(0, 5 * Unit - (e.min - diff) * Unit)
       /\ (e.min <= diff /\ diff <= e.ideal) =>
            r.fit = "right" /\ (10 * r.score - 7 * Unit) * (e.ideal - e.min) = 3 * Unit * (diff - e.min)
       /\ (e.ideal < diff /\ diff <= e.max) =>
            r.fit = "loose" /\ (10 * Unit - 10 * r.score) * (e.max - e.ideal) = 2 * Unit * (diff - e.ideal)
       /\ diff > e.max =>
            r.fit = "oversized" /\ 100 * r.score = MaxOf(30 * Unit, 80 * Unit - (diff - e.max) * 5 * Unit)

\* an oversized garment whose score has come down to 0.3
C8_Witness ==
  /\ measure.called /\ measure.result.fit = "oversized"
  /\ measure.garment - measure.body > measure.ease.max + 10
  /\ 10 * measure.result.score = 3 * Unit

\* C9: for a fixed ease the score is highest at diff = ideal, and outside [min, max] it does
\* not increase as diff moves further from ideal.
C9_ScoreMonotone ==
  measure.called =>
    LET e == measure.ease
        diff == measure.garment - measure.body
        Score(d) == CalculateMeasurementFit(measure.body + d, measure.body, e).score
    IN /\ measure.result.score <= Score(e.ideal)
       /\ diff < e.min => Score(diff - 1) <= measure.result.score
       /\ diff > e.max => Score(diff + 1) <= measure.result.score

\* a tight garment whose score is still falling
C9_Witness ==
  /\ measure.called /\ measure.garment - measure.body < measure.ease.min
  /\ measure.result.score > 0
  /\ CalculateMeasurementFit(measure.garment - 1, measure.body, measure.ease).score < measure.result.score

\* a score or confidence in [0, 1], in hundredths
InUnitInterval(x) == 0 <= x /\ x <= 100

\* C10: every score in allSizes and the confidence of rightFit and of baggyFit lie in [0, 1].
C10_ScoresInUnitInterval ==
  recs.called =>
    /\ \A i \in 1..Len(recs.result.allSizes) : InUnitInterval(recs.result.allSizes[i].score)
    /\ \A i \in 1..Len(recs.result.rightFit) : InUnitInterval(recs.result.rightFit[i].confidence)
    /\ \A i \in 1..Len(recs.result.baggyFit) : InUnitInterval(recs.result.baggyFit[i].confidence)

\* two sizes scored on several measurements, with a right fit and a different baggy fit
C10_Witness ==
  /\ recs.called /\ Len(recs.result.allSizes) = 2
  /\ Len(recs.result.rightFit) = 1 /\ Len(recs.result.baggyFit) = 1
  /\ recs.result.rightFit[1].size # recs.result.baggyFit[1].size
  /\ recs.result.rightFit[1].confidence > 50
  /\ \E i \in 1..2 : recs.result.allSizes[i].score < 50

(* ---------- properties of calculateSizeFit ---------- *)

\* the absolute threshold below which a garment value counts as a flat-lay value
FlatLayThreshold(key) == IF key = "chest" THEN 70 ELSE 50

\* the garment value of the chart for the ease-table key of a detail
ChartValue(d) == GarmentValue(fit.sizeData.m, d.key)[1]

\* C11: for chest, waist and hip the garment value is doubled exactly once before diff is
\* computed iff garmentValue / bodyValue < 0.7 or garmentValue is below the key's threshold
\* (chest 70, waist and hip 50); it is never doubled twice and never doubled for other keys.
C11_DoubledOnce ==
  fit.called =>
    \A i \in 1..Len(fit.result.details) :
      LET d == fit.result.details[i]
          flatLay == /\ d.key \in {"chest", "waist", "hip"}
                     /\ (10 * ChartValue(d) < 7 * d.body \/ ChartValue(d) < FlatLayThreshold(d.key))
      IN /\ d.garment = IF flatLay THEN 2 * ChartValue(d) ELSE ChartValue(d)
         /\ d.diff = d.garment - d.body

\* garment chest 52 against body chest 98 is scored as 104, next to a length that is less than
\* 0.7 of the body's and is left as it is
C11_Witness ==
  /\ fit.called /\ fit.garmentType = "top"
  /\ \E i, j \in 1..Len(fit.result.details) :
       /\ fit.result.details[i].key = "chest" /\ fit.result.details[i].body = 98
       /\ ChartValue(fit.result.details[i]) = 52 /\ fit.result.details[i].garment = 104
       /\ fit.result.details[j].key = "length" /\ fit.result.details[j].garment = 44
       /\ fit.result.details[j].body = 70

\* the ease-table keys that have a value on the garment side and on the user side
KeysOnBothSides ==
  {e.key : e \in {EASE_ALLOWANCES(fit.garmentType)[i] : i \in 1..4}} \cap
  {k \in {"chest", "shoulder", "sleeve", "length", "waist", "hip", "thigh"} :
     /\ k \in DOMAIN fit.sizeData.m \/ (k = "chest" /\ "bust" \in DOMAIN fit.sizeData.m)
     /\ k \in DOMAIN fit.user
        \/ (k = "length" /\ DOMAIN fit.user \cap {"topLength", "pantsLength"} # {})}

\* the sum of the per-measurement scores, in units
ScoreSum == SumSeq([i \in 1..Len(fit.result.details) |-> fit.result.details[i].score])

\* garmentBiggerCount >= garmentSmallerCount
Bigger ==
  Cardinality({i \in 1..Len(fit.result.details) : fit.result.details[i].diff > 0})
    >= Cardinality({i \in 1..Len(fit.result.details) : fit.result.details[i].diff < 0})

\* C12: avgScore is the mean of the per-measurement scores of only those ease-table keys that
\* have a value on both sides (a missing measurement is not counted as 0), and the category is
\* right when avgScore >= 0.85; loose if bigger else tight from 0.70; oversized if bigger else
\* tight from 0.50; too_big if bigger else too_small below 0.50.
C12_MeanOfPresent ==
  (fit.called /\ fit.result.details # <<>>) =>
    LET n == Len(fit.result.details)
    IN /\ {fit.result.details[i].key : i \in 1..n} = KeysOnBothSides
       /\ n = Cardinality(KeysOnBothSides)
       \* the score is the mean ScoreSum / n rounded to hundredths
       /\ fit.result.score = (200 * ScoreSum + n * Unit) \div (2 * n * Unit)
       /\ fit.result.fit =
            IF 100 * ScoreSum >= 85 * n * Unit THEN "right"
            ELSE IF 100 * ScoreSum >= 70 * n * Unit THEN (IF Bigger THEN "loose" ELSE "tight")
            ELSE IF 100 * ScoreSum >= 50 * n * Unit THEN (IF Bigger THEN "oversized" ELSE "tight")
            ELSE (IF Bigger THEN "too_big" ELSE "too_small")

\* a size with two ease-table measurements of which the user has only one, scored in the
\* band from 0.70 to 0.85
C12_Witness ==
  /\ fit.called /\ Len(fit.result.details) = 1
  /\ fit.garmentType = "top" /\ DOMAIN fit.sizeData.m = {"chest", "shoulder"}
  /\ "shoulder" \notin DOMAIN fit.user
  /\ fit.result.fit = "loose" /\ fit.result.score >= 70 /\ fit.result.score < 85

(* ---------- properties of calculateRecommendations ---------- *)

\* the place in the chart of the row labelled size
RowIndexOf(size) == CHOOSE i \in 1..Len(recs.rows) : recs.rows[i].size = size

\* avgScore of chart row i as the pair [sum, n] of its per-measurement scores
RowAvg(i) ==
  LET FromDetails(details) ==
        [sum |-> SumSeq([j \in 1..Len(details) |-> details[j].score]),
         n |-> IF details = <<>> THEN 1 ELSE Len(details)]
  IN FromDetails(FitDetails(recs.rows[i], recs.user, recs.garmentType))

\* row a is ranked before row b: a higher avgScore, or the same avgScore and a larger index
RankedBefore(a, b) ==
  LET Cmp(x, y) == \/ x.sum * y.n > y.sum * x.n
                   \/ (x.sum * y.n = y.sum * x.n /\ a > b)
  IN Cmp(RowAvg(a), RowAvg(b))

\* C13: allSizes holds exactly one entry per chart row, ordered by avgScore descending, equally
\* scored sizes by larger row index first; rightFit is the first entry of that ranking and is
\* null iff the chart has no rows.
C13_RankedByAvgScore ==
  recs.called =>
    LET all == recs.result.allSizes
        n == Len(recs.rows)
    IN /\ Len(all) = n
       /\ {all[i].size : i \in 1..Len(all)} = {recs.rows[i].size : i \in 1..n}
       /\ \A i \in 1..(Len(all) - 1) : RankedBefore(RowIndexOf(all[i].size), RowIndexOf(all[i + 1].size))
       /\ (recs.result.rightFit = <<>>) <=> (n = 0)
       /\ n > 0 => recs.result.rightFit[1].size = all[1].size

\* the chart has the four rows S, M, L, XL with chest 100, 104, 108, 112
FourRowTopChart ==
  /\ Len(recs.rows) = 4
  /\ \A i \in 1..4 : /\ recs.rows[i].size = <<"S", "M", "L", "XL">>[i]
                      /\ "chest" \in DOMAIN recs.rows[i].m
                      /\ recs.rows[i].m["chest"] = <<100, 104, 108, 112>>[i]

ChestOnly98 ==
  recs.called /\ FourRowTopChart /\ recs.user = [chest |-> 98] /\ recs.garmentType = "top"

\* C14 as stated: on the four-row top chart S=100, M=104, L=108, XL=112, a user with chest = 98
\* only and garment type 'top' gets rightFit.size = 'S'.
C14_RightFitS ==
  ChestOnly98 => recs.result.rightFit # <<>> /\ recs.result.rightFit[1].size = "S"

\* C14 amended: on the four-row top chart S=100, M=104, L=108, XL=112, a user with chest = 98
\* only and garment type 'top' gets rightFit.size = 'L' (8 cm is the ideal chest ease; L is 10 cm
\* over the body and scores 0.95, S is 2 cm over, under the minimum ease of 4, and scores 0.3).
C14_RightFitL ==
  ChestOnly98 => recs.result.rightFit # <<>> /\ recs.result.rightFit[1].size = "L"

C14_Witness ==
  /\ ChestOnly98
  /\ recs.result.rightFit = <<[size |-> "L", confidence |-> 95, notes |-> <<>>]>>
  /\ \E i \in 1..4 : recs.result.allSizes[i] = [size |-> "S", fit |-> "too_big", score |-> 30]

\* the rows of the chart are in ascending size order
AscendingChart ==
  \A i \in 1..(Len(recs.rows) - 1) : CompareSizes(recs.rows[i].size, recs.rows[i + 1].size) < 0

\* every size is oversized for the user: each row has a scored measurement, and every scored
\* measurement exceeds the body value by more than the maximum ease
EverySizeOversized ==
  \A i \in 1..Len(recs.rows) :
    LET AllOversized(details) ==
          details # <<>> /\ \A j \in 1..Len(details) : details[j].fit = "oversized"
    IN AllOversized(FitDetails(recs.rows[i], recs.user, recs.garmentType))

\* C15: for a chart in ascending size order and a user smaller than the smallest size (every
\* size oversized), rightFit is the smallest size, the first row of the chart.
C15_SmallestForSmallUser ==
  recs.called /\ recs.rows # <<>> /\ AscendingChart /\ EverySizeOversized
    => recs.result.rightFit # <<>> /\ recs.result.rightFit[1].size = recs.rows[1].size

\* getNextSizeUp applied n times to a label; no label once there is no next size
RECURSIVE NextSizeUpTimes(_, _)
NextSizeUpTimes(size, n) ==
  IF n = 0 \/ size = NoSizeUp THEN size ELSE NextSizeUpTimes(GetNextSizeUp(size), n - 1)

\* the position of chart row i among the rows sorted by size order
SizePosition(i) ==
  1 + Cardinality({j \in 1..Len(recs.rows) : CompareSizes(recs.rows[j].size, recs.rows[i].size) < 0})

RowLabelled(label) == \E i \in 1..Len(recs.rows) : Upper(recs.rows[i].size) = Upper(label)

SizeMarginCall == recs.called /\ recs.margin.type = "size" /\ recs.result.rightFit # <<>>

C16_WitnessByPosition ==
  /\ SizeMarginCall
  /\ recs.margin.value = 2
  /\ ~RowLabelled(NextSizeUpTimes(recs.result.rightFit[1].size, 2))
  /\ \E i \in 1..Len(recs.rows) :
        /\ SizePosition(i) = SizePosition(RowIndexOf(recs.result.rightFit[1].size)) + 2
        /\ recs.result.baggyFit # <<>> /\ recs.result.baggyFit[1].size = recs.rows[i].size

\* C17: with a margin of one size or more, baggyFit is never a smaller size than rightFit:
\* whenever both are returned, baggyFit is not before rightFit in size order.
C17_BaggyNotSmaller ==
  SizeMarginCall /\ recs.margin.value >= 1 /\ recs.result.baggyFit # <<>>
    => CompareSizes(recs.result.baggyFit[1].size, recs.result.rightFit[1].size) >= 0

PrimaryMeasurement == IF recs.garmentType = "top" THEN "chest" ELSE "waist"

\* 100 times the target: the body value plus the margin in cm, or raised by the margin in percent
Target100 ==
  IF recs.margin.type = "cm" THEN 100 * (recs.user[PrimaryMeasurement] + recs.margin.value)
  ELSE recs.user[PrimaryMeasurement] * (100 + recs.margin.value)

\* 100 times the distance to the target of row i's primary value, doubled as in scoring
ScoredDistance(i) ==
  LET Abs(d) == IF d >= 0 THEN d ELSE 0 - d
      Adjusted(garmentValue, userValue) == AdjustedGarment(PrimaryMeasurement, garmentValue, userValue)
  IN Abs(100 * Adjusted(recs.rows[i].m[PrimaryMeasurement], recs.user[PrimaryMeasurement]) - Target100)

Candidates == {i \in 1..Len(recs.rows) : PrimaryMeasurement \in DOMAIN recs.rows[i].m}

\* C18: with a margin in cm or percent, each candidate row's primary garment value is doubled as
\* in scoring (ratio to the body value under 0.7, or under the absolute threshold), and baggyFit
\* is a row whose value so adjusted is nearest to the target.
C18_BaggyNearestTarget ==
  /\ recs.called /\ recs.margin.type \in {"cm", "percent"}
  /\ recs.result.rightFit # <<>>
  /\ PrimaryMeasurement \in DOMAIN recs.user /\ Candidates # {}
  => /\ recs.result.baggyFit # <<>>
     /\ \E i \in Candidates :
          /\ recs.rows[i].size = recs.result.baggyFit[1].size
          /\ \A j \in Candidates : ScoredDistance(i) <= ScoredDistance(j)

(* ---------- properties of the size order ---------- *)

\* the universe of a label: the letter scale, or the numeric labels
Universe(label) == IF Upper(label) \in LetterSizes THEN "letter" ELSE "numeric"

\* C19: compareSizes(a, b) is 0 whenever a and b are of different universes (letter scale
\* against numeric labels), and is nonzero only for two distinct labels of one universe.
C19_NoRelationAcrossUniverses ==
  order.called /\ order.op = "compareSizes" =>
    /\ Universe(order.a) # Universe(order.b) => order.result = 0
    /\ order.result # 0 => Universe(order.a) = Universe(order.b) /\ Upper(order.a) # Upper(order.b)

\* the scale of a label: the letter scale, the small integers 1..9, or the EU sizes 44..58
Scale(label) ==
  IF Upper(label) \in LetterSizes THEN "letter"
  ELSE IF label \in SmallIntegerSizes THEN "small"
  ELSE IF label \in EUSizes THEN "EU"
  ELSE "none"

\* the immediate successor of a label within its scale; none for the top label
Successor(label) ==
  LET InLetters(i) == IF i = Len(SIZE_ORDER) THEN NoSizeUp ELSE SIZE_ORDER[i + 1]
      InNumbers(n, step, top) == IF n = top THEN NoSizeUp ELSE ToString(n + step)
  IN IF Scale(label) = "letter" THEN InLetters(IndexOf(SIZE_ORDER, Upper(label)))
     ELSE IF Scale(label) = "small" THEN InNumbers(ParseInt(label), 1, 9)
     ELSE InNumbers(ParseInt(label), 2, 58)

\* C20: getNextSizeUp(s) is the immediate successor of s within its own universe (the next entry
\* of XXS..5XL, n+1 for 1..9, n+2 for 44..58), never a label of another universe; the result
\* compares strictly greater than s under compareSizes, and the top label of a universe has no
\* successor.
C20_SuccessorWithinUniverse ==
  order.called /\ order.op = "getNextSizeUp" =>
    /\ order.result = Successor(order.a)
    /\ order.result # NoSizeUp =>
         /\ Scale(order.result) = Scale(order.a)
         /\ CompareSizes(order.result, order.a) > 0

(* ---------- properties of containsSizeGuide ---------- *)

AskedTokens == IF guide.text = Null THEN <<>> ELSE Flatten(guide.text)

\* the text has a measurement keyword
AnyKeyword ==
  \E i \in 1..Len(AskedTokens) :
    \/ AskedTokens[i].k = "w" /\ Lower(AskedTokens[i].s) \in KeywordWords
    \/ AskedTokens[i].k = "z" /\ AskedTokens[i].s \in KeywordTerms

\* the text has a number followed by a unit
AnyUnitQualified ==
  \E i \in 1..(Len(AskedTokens) - 1) :
    /\ AskedTokens[i].k = "n" \/ (AskedTokens[i].k = "g" /\ AskedTokens[i].s \in {"$d", "Sd"})
    /\ \/ AskedTokens[i + 1].k = "w" /\ Lower(AskedTokens[i + 1].s) \in UnitWords
       \/ AskedTokens[i + 1].k = "z" /\ AskedTokens[i + 1].s \in UnitTerms

\* the text has a size token: a letter size or a number of one or two digits
AnySizeToken ==
  \E i \in 1..Len(AskedTokens) :
    \/ AskedTokens[i].k = "w" /\ Upper(AskedTokens[i].s) \in LetterSizes
    \/ AskedTokens[i].k = "n" /\ AskedTokens[i].n < 100
    \/ AskedTokens[i].k = "g" /\ AskedTokens[i].s \in {"$d", "d$"}

\* the text has a bare number of two or three digits
AnyTableNumber ==
  \E i \in 1..Len(AskedTokens) :
    AskedTokens[i].k = "n" /\ AskedTokens[i].n \in 10..999

\* C21 as stated: containsSizeGuide(text) is true iff the text has a measurement keyword and
\* (a unit-qualified number or a size token); a keyword with only bare numbers that are neither
\* is no size guide.
C21_KeywordAndUnitOrSize ==
  guide.called => (guide.result <=> AnyKeyword /\ (AnyUnitQualified \/ AnySizeToken))

\* C21 amended: containsSizeGuide(text) is true iff the text has a measurement keyword and
\* (a unit-qualified number, or a bare number of two or three digits, or a size token).
C21_KeywordAndNumberOrSize ==
  guide.called =>
    (guide.result <=> AnyKeyword /\ (AnyUnitQualified \/ AnyTableNumber \/ AnySizeToken))

\* a keyword and bare three-digit numbers only, after an earlier call: a size guide
C21_Witness ==
  /\ guide.called /\ guide.result
  /\ AskedTokens = <<W("Chest"), N(100), N(104)>>
  /\ ~AnyUnitQualified /\ ~AnySizeToken

\* a keyword and a four-digit number only: no size guide
C21_WitnessNoGuide ==
  guide.called /\ ~guide.result /\ AskedTokens = <<W("Chest"), N(1000)>>

\* containsSizeGuide(text) when every lastIndex is 0
FreshAnswer(rawText) == ContainsSizeGuide(rawText, [r \in PatternNames |-> 0]).result

RowsNeeded(name) == IF name = "ocrSpecific" THEN 3 ELSE 2

\* C23: a result of a single-table strategy with fewer than 2 rows (fewer than 3 for the
\* OCR-specific strategy) is left out of the scoring of candidates, for each of the six
\* strategies; so a non-empty chart of the fallback path never has exactly one row.
C23_SingleRowExcluded ==
  Parsed /\ chart.path = "fallback" =>
    /\ \A i \in 1..Len(chart.results) :
         Len(chart.results[i].result.rows) >= RowsNeeded(chart.results[i].name)
    /\ Len(chart.rows) # 1

(* ---------- properties of the OCR fixes ---------- *)

\* the numbers a text shows once '$' and 'S' next to a digit are read as 5
ReadAsFive(t) == IF t.s \in {"$d", "Sd"} THEN 50 + t.n ELSE 10 * t.n + 5

FixedNumbers ==
  {IF t.k = "g" THEN ReadAsFive(t) ELSE t.n : t \in {tok \in UNION {{l[i] : i \in 1..Len(l)} : l \in {text[j] : j \in 1..Len(text)}} : tok.k \in {"n", "g"}}}

SeenTokens == UNION {{chart.translatedText[j][i] : i \in 1..Len(chart.translatedText[j])} : j \in 1..Len(chart.translatedText)}

LengthExample ==
  text = << <<W("Size"), W("S"), W("M"), W("L"), W("XL")>>, <<W("Length"), G("d$", 6), N(67), N(69), N(71)>> >>

\* C24: the character fixes ('$' or 'S' next to a digit read as 5) are made on the raw text
\* before translation, before multi-table detection and before every strategy: the text the
\* strategies get has no garbled number and no untranslated term, every value of the chart is a
\* number of the fixed text, and 'Length 6$ 67 69 71' under 'Size S M L XL' gives S the length 65.
C24_FixedBeforeParsing ==
  Parsed /\ text # Null /\ text # <<>> =>
    /\ \A t \in SeenTokens : t.k \notin {"g", "z"}
    /\ \A i \in 1..Len(ChartRows) : \A key \in DOMAIN ChartRows[i].m : ChartRows[i].m[key] \in FixedNumbers
    /\ LengthExample =>
         /\ [i \in 1..Len(chart.rows) |-> chart.rows[i].size] = <<"S", "M", "L", "XL">>
         /\ [i \in 1..Len(chart.rows) |-> chart.rows[i].m] =
              <<[length |-> 65], [length |-> 67], [length |-> 69], [length |-> 71]>>

C24_Witness ==
  /\ Parsed /\ text # Null /\ LengthExample
  /\ chart.path = "multi" /\ chart.rows[1] = Row("S", [length |-> 65])

\* a garbled number read by a single-table strategy
C24_WitnessFallback ==
  /\ Parsed /\ text # Null /\ text # <<>>
  /\ chart.path = "fallback"
  /\ \E i \in 1..Len(chart.rows) : \E key \in DOMAIN chart.rows[i].m : chart.rows[i].m[key] = 53

(* ---------- properties of multi-table detection ---------- *)

\* the distinct size tokens a line carries after its first word
DistinctSizes(line) ==
  {ExpectedSize(line[i]) : i \in {j \in 2..Len(line) :
      \/ line[j].k = "w" /\ Upper(line[j].s) \in LetterSizes
      \/ line[j].k = "n" /\ (line[j].n \in 1..9 \/ line[j].n \in 44..58)}}

\* a table header: a line that starts with Size and carries at least 2 distinct size tokens
TableHeader(line) ==
  line[1].k = "w" /\ Lower(line[1].s) = "size" /\ Cardinality(DistinctSizes(line)) >= 2

\* a line of a keyword and at least k values
LabelledValues(line, k) ==
  /\ line[1].k = "w" /\ Lower(line[1].s) \in {"chest", "waist"}
  /\ Len(line) >= k + 1
  /\ \A i \in 2..Len(line) : line[i].k = "n" /\ line[i].n \in 10..250

TableSizes(t) == [i \in 1..Len(t.rows) |-> t.rows[i].size]

\* C25: in multi-table detection a line starting with Size is a table header (opens a segment
\* and ends the one before) only with at least 2 distinct size tokens: every table comes from
\* such a header, and a Size line with one size token, or the same token repeated, does not cut
\* the measurement lines after it off from the table of the header before it.
C25_HeaderNeedsTwoDistinctSizes ==
  Parsed /\ text # Null /\ text # <<>> =>
    /\ chart.path = "multi" =>
         \A t \in 1..Len(chart.tables) :
           \E i \in 1..Len(text) :
             /\ TableHeader(text[i])
             /\ Len(chart.tables[t].rows) = Cardinality(DistinctSizes(text[i]))
             /\ {chart.tables[t].rows[r].size : r \in 1..Len(chart.tables[t].rows)} = DistinctSizes(text[i])
    /\ \A i \in 1..Len(text) : \A j \in (i + 1)..Len(text) :
         /\ TableHeader(text[i])
         /\ \A h \in (i + 1)..(j - 1) : ~TableHeader(text[h])
         /\ LabelledValues(text[j], Cardinality(DistinctSizes(text[i])))
         => /\ chart.path = "multi"
            /\ \E t \in 1..Len(chart.tables) :
                 /\ {chart.tables[t].rows[r].size : r \in 1..Len(chart.tables[t].rows)} = DistinctSizes(text[i])
                 /\ Lower(text[j][1].s) \in DOMAIN chart.tables[t].rows[1].m

\* a line labelled Length alone
PlainLengthLine(line) == line[1] = W("Length")

\* the keys the keyword length is stored under, the first time and again
LengthKeys == {"length", "length2", "length3", "length4", "length5"}

\* C26: in multi-table detection a measurement line is keyed by the most specific keyword it
\* contains: a line labelled 'Pants Length' is stored under pantsLength and not under length, so
\* a table has no more length keys than the text has lines labelled Length alone.
C26_MostSpecificKeyword ==
  Parsed /\ text # Null /\ chart.path = "multi" =>
    \A t \in 1..Len(chart.tables) : \A r \in 1..Len(chart.tables[t].rows) :
      Cardinality(DOMAIN chart.tables[t].rows[r].m \cap LengthKeys)
        <= Cardinality({i \in 1..Len(text) : PlainLengthLine(text[i])})

(* ---------- properties of the reported fit ---------- *)

\* C27: in every allSizes entry the reported score and the reported fit agree with the category
\* thresholds: fit is right iff score >= 0.85, fit is too_big or too_small iff score < 0.50,
\* and otherwise fit is loose, oversized or tight.
C27_ScoreAgreesWithFit ==
  recs.called =>
    \A i \in 1..Len(recs.result.allSizes) :
      LET Agrees(e) ==
            /\ e.fit = "right" <=> e.score >= 85
            /\ e.fit \in {"too_big", "too_small"} <=> e.score < 50
            /\ e.fit \in {"right", "too_big", "too_small", "loose", "oversized", "tight"}
      IN Agrees(recs.result.allSizes[i])

\* C28: a size's overall fit is never loose, oversized or too_big when every contributing
\* measurement is categorised tight: the overall direction agrees with the measurements.
C28_TightNeverTooBig ==
  /\ fit.called /\ fit.result.details # <<>>
  /\ \A i \in 1..Len(fit.result.details) : fit.result.details[i].fit = "tight"
  => fit.result.fit \notin {"loose", "oversized", "too_big"}

(* ---------- properties of the OCR endpoint ---------- *)

\* C29: in the response of the OCR endpoint structured.garmentType describes the rows it comes
\* with: whenever parseSizeChart found tables by multi-table detection, structured.garmentType
\* is tables[0].garmentType, the garment type of the table whose rows are structured.rows.
C29_GarmentTypeOfRows ==
  response.called /\ chart.path = "multi" =>
    /\ response.structured.rows = response.structured.tables[1].rows
    /\ response.structured.garmentType = response.structured.tables[1].garmentType

(* ---------- the user's length in calculateSizeFit ---------- *)

\* C30: for garmentType bottom the garment's length is compared against the user's pantsLength
\* whenever the user supplies a pantsLength and no plain length; the user's topLength is used
\* for the length comparison only when scoring a top.
C30_PantsLengthForBottoms ==
  fit.called /\ fit.garmentType = "bottom" /\ "length" \notin DOMAIN fit.user =>
    \A i \in 1..Len(fit.result.details) :
      fit.result.details[i].key = "length" =>
        /\ "pantsLength" \in DOMAIN fit.user
        /\ fit.result.details[i].body = fit.user["pantsLength"]

====
